---- MODULE Spec2Model ----
(***************************************************************************)
(* Verification model of anolis-provider-sim: the signal registry, the     *)
(* device read path, the physics ticker threads and the request loop.      *)
(* Doubles are modelled by small integers; std::optional<double> by a      *)
(* record [has, v].                                                        *)
(***************************************************************************)
EXTENDS Integers, Sequences, FiniteSets, TLC

VARIABLES
    \* ---- SignalRegistry (signal_registry.hpp:125-136)
    physics_driven_signals,   \* std::set<std::string>
    signal_cache,             \* std::map<std::string,double>, as path -> optional
    device_reader,            \* std::function: "null" (empty) or "lambda"
    registry_mutex,           \* holder of registry_mutex_: a thread or "free"
    \* ---- the two long-lived threads calling into the registry
    stack,                    \* per thread: the call stack (sequence of frames)
    ret,                      \* per thread: value returned by the frame popped last
    clears,                   \* number of clear_physics_overrides calls issued
    \* ---- device instance state (g_device_states of each device type)
    dev,
    \* ---- observations of completed calls
    lastReq,                  \* the read_signals request completed last
    tpath,                    \* the signal path a read_signals run is about
    \* ---- process lifecycle (core/main.cpp, main.cpp, device_manager.cpp:28-47)
    build,                    \* "core" (engine ticker) or "legacy" (SimPhysics)
    g_sim_mode,               \* "inert", "non_interacting" or "sim" (legacy: physics)
    main_pc,                  \* main thread: "boot", "loop", "join", "exited"
    exit_code,                \* value main returns
    g_simulation_engine,      \* engine object present (legacy: g_physics_engine)
    g_ticker_running,         \* std::atomic<bool> (legacy: ticker_running_)
    g_ticker_thread,          \* unique_ptr<std::thread>: "null", "joinable", "joined"
    live_threads,             \* ticker threads started and not yet finished
    ticker_pc,                \* position of the ticker thread
    thread_start,             \* clock value at the start of the ticker thread
    next_tick,                \* engine ticker: scheduled time of the next tick
    now,                      \* engine ticker: clock value read after the tick
    tick_start,               \* local ticker: clock value read at the loop top
    wake_at,                  \* local ticker: end of the sleep_for in progress
    steady_clock,             \* std::chrono::steady_clock
    \* ---- history of the run
    wait_ready_handled,       \* a wait_ready request has been handled
    stop_called,              \* stop_physics has been called
    ticked,                   \* a tick has been executed
    start_skipped,            \* start_physics found the ticker already running
    \* ---- framed stdio (transport/framed_stdio.cpp) and the dispatcher
    cin,                      \* bytes not yet read from std::cin, as runs
    cin_open,                 \* the peer may still write to the stream
    cin_tail,                 \* what the stream ends with: whole frames or damage
    unread,                   \* payloads framed by write_frame and not yet read
    written,                  \* number of frames the peer has written
    frame,                    \* payload of the last read_frame
    io_err,                   \* err of the last read_frame
    request,                  \* the last request parsed, and how many so far
    cout,                     \* the last response frame written, and how many
    faults,                   \* fault_injection state: devices per injected fault
    \* ---- FluxGraphClient (fluxgraph_client.hpp) and the call in progress
    client,                   \* registered_, session_id_, provider_id_, last_tick_occurred_,
                              \* pending_commands_, signal_cache_
    rpc,                      \* the adapter call in progress: operation, position, attempt
    calls,                    \* adapter calls begun
    \* ---- locals of one ticker loop iteration
    tick_count,               \* ticker_thread_func: ticks completed
    actuators,                \* the map collect_actuator_signals filled
    sensors,                  \* FluxGraphAdapter::read_signals: the map being filled
    next_read,                \* FluxGraphAdapter::read_signals: index of the next path
    result,                   \* the TickResult, its sensors and commands not yet processed
    device_writes,            \* SimPhysics::ticker_thread: writes not yet committed
    tick_log,                 \* what the last engine call returned, what was done with it
    owed,                     \* commands received in OK responses and not yet executed
    \* ---- fault_injection.cpp: State, with expiry instants on steady_clock
    fault_state,              \* device_unavailable_faults, signal_faults
    reply,                    \* what the handler called last answered, until the clock moves
    \* ---- SimPhysics (sim_physics.hpp) and the RuleEngine (rule_engine.hpp)
    physics,                  \* physics_mutex_, the thermal model, model_outputs_, the
                              \* graph evaluation in progress, last_update of step_world
    rule_engine,              \* physics_config_.rules, the rule being evaluated, the
                              \* outcomes of the current evaluation
    device_access,            \* per thread: the device function it is inside and
                              \* the State fields it has loaded
    transforms,               \* linear_states_, delay_states_ and the static sim_time
                              \* of apply_transform
    samples                   \* the inputs given to the transforms and the controller
                              \* and the outputs they returned, tick by tick

regVars == <<physics_driven_signals, signal_cache, device_reader, registry_mutex,
             stack, ret, clears, dev, lastReq, tpath>>

runVars == <<build, g_sim_mode, main_pc, exit_code, g_simulation_engine,
             g_ticker_running, g_ticker_thread, live_threads, ticker_pc,
             thread_start, next_tick, now, tick_start, wake_at, steady_clock,
             wait_ready_handled, stop_called, ticked, start_skipped>>

ioVars == <<cin, cin_open, cin_tail, unread, written, frame, io_err, request, cout,
           faults>>

\* the variables of the subsystems other than the registry and the lifecycle
rpcVars == <<client, rpc, calls>>

tickVars == <<tick_count, actuators, sensors, next_read, result, device_writes,
              tick_log, owed>>

\* the tables of fault_injection.cpp and the last answer of a handler
faultVars == <<fault_state, reply>>

physVars == <<physics, rule_engine>>

accessVars == <<device_access>>

transformVars == <<transforms, samples>>

restVars == <<faultVars, physVars, accessVars, transformVars>>

extVars == <<ioVars, rpcVars, tickVars, restVars>>

vars == <<regVars, runVars, extVars>>

-----------------------------------------------------------------------------
(* Bounds of the model *)

\* clear_physics_overrides calls per run; every extra level of read_signal
\* re-entry through the device reader needs one more clear in between
MaxClears == 1

-----------------------------------------------------------------------------
(* Values *)

\* std::optional<double> and protobuf Value share one record shape
None == [has |-> FALSE, v |-> 0, type |-> "none"]
Some(x) == [has |-> TRUE, v |-> x, type |-> "double"]

\* values the physics side writes (degrees C, duty, ...)
PhysValues == {70, 80}

Threads == {"ticker", "request"}
NoThread == "free"

\* device instances: one of each type (device_factory registrations)
DeviceType(d) ==
    CASE d = "tc0" -> "tempctl"
      [] d = "mc0" -> "motorctl"
      [] d = "rl0" -> "relayio"
      [] d = "an0" -> "analogsensor"

Devices == {"tc0", "mc0", "rl0", "an0"}

\* a signal path "<device_id>/<signal_id>" is kept as the pair, so that the
\* reader's split at '/' is the projection
Path(d, s) == [d |-> d, s |-> s]
NoPath == Path("none", "none")

TempctlSignals == {"tc1_temp", "tc2_temp", "relay1_state", "relay2_state", "setpoint"}
MotorctlSignals == {"motor1_speed", "motor1_duty"}
RelayioSignals == {"relay_ch1_state", "gpio_input_1"}
AnalogSignals == {"voltage_ch1"}

SignalsOf(d) ==
    CASE DeviceType(d) = "tempctl" -> TempctlSignals
      [] DeviceType(d) = "motorctl" -> MotorctlSignals
      [] DeviceType(d) = "relayio" -> RelayioSignals
      [] DeviceType(d) = "analogsensor" -> AnalogSignals

DevicePaths == {Path(d, s) : d \in Devices, s \in TempctlSignals \cup MotorctlSignals
                                             \cup RelayioSignals \cup AnalogSignals}
AllPaths == {p \in DevicePaths : p.s \in SignalsOf(p.d)}

\* the paths the registry runs exercise: a tempctl sensor and a tempctl actuator
RegPaths == {Path("tc0", "tc1_temp"), Path("tc0", "relay1_state")}

-----------------------------------------------------------------------------
(* Device state and the devices' pure helpers *)

InitialTemp == 25
DefaultSetpoint == 60
BothOnError == 10
DeadBand == 2

make_double(x) == [has |-> TRUE, v |-> x, type |-> "double"]
make_bool(b) == [has |-> TRUE, v |-> IF b THEN 1 ELSE 0, type |-> "bool"]

\* State structs of the four device types, one instance each
InitDev == [tc1_c |-> InitialTemp, tc2_c |-> InitialTemp,
            relay1 |-> FALSE, relay2 |-> FALSE,
            mode |-> "open", setpoint_c |-> DefaultSetpoint,
            duty1 |-> 0, speed1 |-> 0,
            relay_ch1 |-> FALSE, gpio_input_1 |-> FALSE]

\* variant: a controller without dead band, off whenever the error is small
BangBangNoHold(s, temp) ==
    LET error == s.setpoint_c - temp IN
    IF error > BothOnError THEN [s EXCEPT !.relay1 = TRUE, !.relay2 = TRUE]
    ELSE IF error > DeadBand THEN [s EXCEPT !.relay1 = TRUE, !.relay2 = FALSE]
    ELSE [s EXCEPT !.relay1 = FALSE, !.relay2 = FALSE]

\* tempctl bang-bang controller: the relay pair after one evaluation
BangBang(s, temp) ==
    LET error == s.setpoint_c - temp IN
    IF error > BothOnError THEN [s EXCEPT !.relay1 = TRUE, !.relay2 = TRUE]
    ELSE IF error > DeadBand THEN [s EXCEPT !.relay1 = TRUE, !.relay2 = FALSE]
    ELSE IF error < 0 - DeadBand THEN [s EXCEPT !.relay1 = FALSE, !.relay2 = FALSE]
    ELSE s

\* signals whose read_signals branch asks the registry before the device state
UsesRegistry(p) ==
    \/ DeviceType(p.d) = "tempctl" /\ p.s \in {"tc1_temp", "tc2_temp"}
    \/ DeviceType(p.d) = "motorctl"

\* readings an analog channel can give (base value plus noise)
AnalogReadings == {3, 4}

\* the values the device's own state gives for a signal
DeviceValues(s, p) ==
    CASE p.s = "tc1_temp" -> {make_double(s.tc1_c)}
      [] p.s = "tc2_temp" -> {make_double(s.tc2_c)}
      [] p.s = "relay1_state" -> {make_bool(s.relay1)}
      [] p.s = "relay2_state" -> {make_bool(s.relay2)}
      [] p.s = "setpoint" -> {make_double(s.setpoint_c)}
      [] p.s = "motor1_speed" -> {make_double(s.speed1)}
      [] p.s = "motor1_duty" -> {make_double(s.duty1)}
      [] p.s = "relay_ch1_state" -> {make_bool(s.relay_ch1)}
      [] p.s = "gpio_input_1" -> {make_bool(s.gpio_input_1)}
      [] p.s = "voltage_ch1" -> {make_double(x) : x \in AnalogReadings}

\* the device reader's conversion of a protobuf Value to optional<double>
ValueToDouble(val) ==
    IF ~val.has THEN None
    ELSE IF val.type = "double" THEN Some(val.v)
    ELSE IF val.type = "int64" THEN Some(val.v)
    ELSE IF val.type = "bool" THEN Some(IF val.v = 1 THEN 1 ELSE 0)
    ELSE None

-----------------------------------------------------------------------------
(* Call stacks *)

Frame(op, pc, path, val) ==
    [op |-> op, pc |-> pc, path |-> path, val |-> val,
     rdr |-> "null"]

Depth(t) == Len(stack[t])
Top(t) == stack[t][Len(stack[t])]
Idle(t) == stack[t] = <<>>
At(t, op, pc) == ~Idle(t) /\ Top(t).op = op /\ Top(t).pc = pc

Pushed(t, f) == Append(stack[t], f)
Popped(t) == SubSeq(stack[t], 1, Len(stack[t]) - 1)
WithTop(t, f) == [stack[t] EXCEPT ![Len(stack[t])] = f]
\* the caller moves to pc and the callee's frame goes on top
CallFrom(t, pc, f) == Append(WithTop(t, [Top(t) EXCEPT !.pc = pc]), f)

RegistryOps == {"read_signal", "write_signal", "is_physics_driven",
                "mark_physics_driven", "clear_physics_overrides", "set_device_reader"}

NoReq == [path |-> NoPath, cv |-> None, dirty |-> FALSE, done |-> FALSE, result |-> None]

-----------------------------------------------------------------------------
(* SignalRegistry: every operation takes registry_mutex_ with a lock_guard.  *)
(* Taking the mutex is one step; the guarded block and its release another.  *)

RegUnchangedByCall(t) ==
    /\ ret' = [ret EXCEPT ![t] = None]
    /\ UNCHANGED <<physics_driven_signals, signal_cache, device_reader,
                                   registry_mutex, dev, lastReq, tpath>>
    /\ UNCHANGED <<runVars, extVars>>

\* a thread at top level calls write_signal(p, v)
CallWriteSignal(t, p, v) ==
    /\ Idle(t)
    /\ stack' = [stack EXCEPT ![t] = <<Frame("write_signal", "lock", p, Some(v))>>]
    /\ UNCHANGED clears
    /\ RegUnchangedByCall(t)

CallMarkPhysicsDriven(t, p) ==
    /\ Idle(t)
    /\ stack' = [stack EXCEPT ![t] = <<Frame("mark_physics_driven", "lock", p, None)>>]
    /\ UNCHANGED clears
    /\ RegUnchangedByCall(t)

CallClearPhysicsOverrides(t) ==
    /\ Idle(t)
    /\ clears < MaxClears
    /\ clears' = clears + 1
    /\ stack' = [stack EXCEPT ![t] =
                    <<Frame("clear_physics_overrides", "lock", NoPath, None)>>]
    /\ RegUnchangedByCall(t)

CallSetDeviceReader(t, r) ==
    /\ Idle(t)
    /\ stack' = [stack EXCEPT ![t] =
                    <<[Frame("set_device_reader", "lock", NoPath, None) EXCEPT !.rdr = r]>>]
    /\ UNCHANGED clears
    /\ RegUnchangedByCall(t)

CallReadSignal(t, p) ==
    /\ Idle(t)
    /\ stack' = [stack EXCEPT ![t] = <<Frame("read_signal", "lock", p, None)>>]
    /\ UNCHANGED clears
    /\ RegUnchangedByCall(t)

\* std::lock_guard<std::mutex> lock(registry_mutex_): blocks while it is held,
\* by another thread or (the mutex is not recursive) by the caller itself
Lock(t) ==
    /\ ~Idle(t)
    /\ Top(t).op \in RegistryOps
    /\ Top(t).pc = "lock"
    /\ registry_mutex = NoThread
    /\ registry_mutex' = t
    /\ stack' = [stack EXCEPT ![t] = WithTop(t, [Top(t) EXCEPT !.pc = "locked"])]
    /\ UNCHANGED <<physics_driven_signals, signal_cache, device_reader, ret, clears,
                   dev, lastReq, tpath>>
    /\ UNCHANGED <<runVars, extVars>>

\* a registry mutation of path p (or of all paths) spoils a request in flight
Spoiled(req, paths) ==
    IF ~req.done /\ req.path \in paths THEN [req EXCEPT !.dirty = TRUE] ELSE req

WriteSignalBody(t) ==
    /\ At(t, "write_signal", "locked")
    /\ physics_driven_signals' = physics_driven_signals \cup {Top(t).path}
    /\ signal_cache' = [signal_cache EXCEPT ![Top(t).path] = Top(t).val]
    /\ registry_mutex' = NoThread
    /\ stack' = [stack EXCEPT ![t] = Popped(t)]
    /\ lastReq' = Spoiled(lastReq, {Top(t).path})
    /\ UNCHANGED <<device_reader, ret, clears, dev, tpath>>
    /\ UNCHANGED <<runVars, extVars>>

MarkPhysicsDrivenBody(t) ==
    /\ At(t, "mark_physics_driven", "locked")
    /\ physics_driven_signals' = physics_driven_signals \cup {Top(t).path}
    /\ registry_mutex' = NoThread
    /\ stack' = [stack EXCEPT ![t] = Popped(t)]
    /\ UNCHANGED <<signal_cache, device_reader, ret, clears, dev, lastReq, tpath>>
    /\ UNCHANGED <<runVars, extVars>>

\* variant: the cache survives a clear
ClearedCacheKept == signal_cache

\* signal_cache_.clear()
ClearedCache == [p \in AllPaths |-> None]

ClearPhysicsOverridesBody(t) ==
    /\ At(t, "clear_physics_overrides", "locked")
    /\ physics_driven_signals' = {}
    /\ signal_cache' = ClearedCache
    /\ registry_mutex' = NoThread
    /\ stack' = [stack EXCEPT ![t] = Popped(t)]
    /\ lastReq' = Spoiled(lastReq, AllPaths)
    /\ UNCHANGED <<device_reader, ret, clears, dev, tpath>>
    /\ UNCHANGED <<runVars, extVars>>

SetDeviceReaderBody(t) ==
    /\ At(t, "set_device_reader", "locked")
    /\ device_reader' = Top(t).rdr
    /\ registry_mutex' = NoThread
    /\ stack' = [stack EXCEPT ![t] = Popped(t)]
    /\ UNCHANGED <<physics_driven_signals, signal_cache, ret, clears, dev,
                   lastReq, tpath>>
    /\ UNCHANGED <<runVars, extVars>>

IsPhysicsDrivenBody(t) ==
    /\ At(t, "is_physics_driven", "locked")
    /\ ret' = [ret EXCEPT ![t] = make_bool(Top(t).path \in physics_driven_signals)]
    /\ registry_mutex' = NoThread
    /\ stack' = [stack EXCEPT ![t] = Popped(t)]
    /\ UNCHANGED <<physics_driven_signals, signal_cache, device_reader, clears, dev,
                   lastReq, tpath>>
    /\ UNCHANGED <<runVars, extVars>>

\* variant: the block tests the cache instead of the physics-driven set
ReadUnderLockByCache(p) ==
    IF signal_cache[p].has
    THEN [done |-> TRUE, value |-> signal_cache[p], reader |-> "null"]
    ELSE [done |-> FALSE, value |-> None, reader |-> device_reader]

\* read_signal, the block under the lock: the answer when it returns from
\* inside the block, else the copy of device_reader_ to call after it
ReadUnderLock(p) ==
    IF p \in physics_driven_signals
    THEN [done |-> TRUE, value |-> signal_cache[p], reader |-> "null"]
    ELSE [done |-> FALSE, value |-> None, reader |-> device_reader]

\* variant: the lock is kept across the reader call
MutexKeptForReader(t) == t

\* the holder of registry_mutex_ once the block is left to call the reader
MutexAfterInspect(t) == NoThread

\* what read_signal returns after the reader has answered
ReadResultAfterReader(f, readerRet) == readerRet

ReadSignalBody(t) ==
    /\ At(t, "read_signal", "locked")
    /\ LET f == Top(t)
           r == ReadUnderLock(f.path)
           snap == [f EXCEPT !.rdr = r.reader]
       IN IF r.done
          THEN /\ stack' = [stack EXCEPT ![t] = Popped(t)]
               /\ ret' = [ret EXCEPT ![t] = r.value]
               /\ registry_mutex' = NoThread
          ELSE /\ stack' = [stack EXCEPT ![t] = WithTop(t, [snap EXCEPT !.pc = "unlocked"])]
               /\ registry_mutex' = MutexAfterInspect(t)
               /\ UNCHANGED ret
    /\ UNCHANGED <<physics_driven_signals, signal_cache, device_reader, clears, dev,
                   lastReq, tpath>>
    /\ UNCHANGED <<runVars, extVars>>

\* if (reader) return reader(path); else return std::nullopt
ReadSignalInvoke(t) ==
    /\ At(t, "read_signal", "unlocked")
    /\ LET f == Top(t) IN
       IF f.rdr # "null"
       THEN /\ stack' = [stack EXCEPT ![t] =
                   CallFrom(t, "wait_reader", Frame("device_reader", "start", f.path, None))]
            /\ UNCHANGED ret
       ELSE /\ stack' = [stack EXCEPT ![t] = Popped(t)]
            /\ ret' = [ret EXCEPT ![t] = None]
    /\ UNCHANGED <<physics_driven_signals, signal_cache, device_reader, registry_mutex,
                   clears, dev, lastReq, tpath>>
    /\ UNCHANGED <<runVars, extVars>>

ReadSignalReturn(t) ==
    /\ At(t, "read_signal", "wait_reader")
    /\ stack' = [stack EXCEPT ![t] = Popped(t)]
    /\ ret' = [ret EXCEPT ![t] = ReadResultAfterReader(Top(t), ret[t])]
    /\ UNCHANGED <<physics_driven_signals, signal_cache, device_reader, registry_mutex,
                   clears, dev, lastReq, tpath>>
    /\ UNCHANGED <<runVars, extVars>>

-----------------------------------------------------------------------------
(* The device reader installed by initialize_physics, and read_signals *)

RegistryUnchanged == UNCHANGED <<physics_driven_signals, signal_cache, device_reader,
                                  registry_mutex, clears, tpath, runVars, extVars>>

\* the lambda: split the path, read_signals(device_id, {signal_id})
DeviceReaderStart(t) ==
    /\ At(t, "device_reader", "start")
    /\ stack' = [stack EXCEPT ![t] =
            CallFrom(t, "conv", Frame("read_signals", "start", Top(t).path, None))]
    /\ UNCHANGED <<ret, dev, lastReq>>
    /\ RegistryUnchanged

\* the lambda: convert signals[0].value() to optional<double>
DeviceReaderReturn(t) ==
    /\ At(t, "device_reader", "conv")
    /\ stack' = [stack EXCEPT ![t] = Popped(t)]
    /\ ret' = [ret EXCEPT ![t] = ValueToDouble(ret[t])]
    /\ UNCHANGED <<dev, lastReq>>
    /\ RegistryUnchanged

Tc1Path(p) == Path(p.d, "tc1_temp")

\* read_signals returns val; a request at top level is then answered
Finish(t, val) ==
    /\ stack' = [stack EXCEPT ![t] = Popped(t)]
    /\ ret' = [ret EXCEPT ![t] = val]
    /\ lastReq' = IF Depth(t) = 1
                  THEN [lastReq EXCEPT !.done = TRUE, !.result = val]
                  ELSE lastReq

\* device_manager read_signals dispatches on the type; tempctl in closed mode
\* first runs its bang-bang controller on tc1
ReadSignalsStart(t) ==
    /\ At(t, "read_signals", "start")
    /\ LET p == Top(t).path IN
       IF DeviceType(p.d) = "tempctl" /\ dev.mode = "closed"
       THEN stack' = [stack EXCEPT ![t] =
               CallFrom(t, "bb_ipd", Frame("is_physics_driven", "lock", Tc1Path(p), None))]
       ELSE stack' = [stack EXCEPT ![t] = WithTop(t, [Top(t) EXCEPT !.pc = "sig"])]
    /\ UNCHANGED <<ret, dev, lastReq>>
    /\ RegistryUnchanged

BangBangAfterIpd(t) ==
    /\ At(t, "read_signals", "bb_ipd")
    /\ IF ret[t].v = 1
       THEN /\ stack' = [stack EXCEPT ![t] =
                   CallFrom(t, "bb_read", Frame("read_signal", "lock", Tc1Path(Top(t).path), None))]
            /\ UNCHANGED dev
       ELSE /\ dev' = BangBang(dev, dev.tc1_c)
            /\ stack' = [stack EXCEPT ![t] = WithTop(t, [Top(t) EXCEPT !.pc = "sig"])]
    /\ UNCHANGED <<ret, lastReq>>
    /\ RegistryUnchanged

BangBangAfterRead(t) ==
    /\ At(t, "read_signals", "bb_read")
    /\ dev' = BangBang(dev, IF ret[t].has THEN ret[t].v ELSE dev.tc1_c)
    /\ stack' = [stack EXCEPT ![t] = WithTop(t, [Top(t) EXCEPT !.pc = "sig"])]
    /\ UNCHANGED <<ret, lastReq>>
    /\ RegistryUnchanged

\* the branch of the requested signal id
ReadSignalsSig(t) ==
    /\ At(t, "read_signals", "sig")
    /\ LET p == Top(t).path IN
       IF UsesRegistry(p)
       THEN /\ stack' = [stack EXCEPT ![t] =
                   CallFrom(t, "sig_ipd", Frame("is_physics_driven", "lock", p, None))]
            /\ UNCHANGED <<ret, lastReq>>
       ELSE \E val \in DeviceValues(dev, p) : Finish(t, val)
    /\ UNCHANGED dev
    /\ RegistryUnchanged

SigAfterIpd(t) ==
    /\ At(t, "read_signals", "sig_ipd")
    /\ LET p == Top(t).path IN
       IF ret[t].v = 1
       THEN /\ stack' = [stack EXCEPT ![t] =
                   CallFrom(t, "sig_read", Frame("read_signal", "lock", p, None))]
            /\ UNCHANGED <<ret, lastReq>>
       ELSE \E val \in DeviceValues(dev, p) : Finish(t, val)
    /\ UNCHANGED dev
    /\ RegistryUnchanged

SigAfterRead(t) ==
    /\ At(t, "read_signals", "sig_read")
    /\ \E val \in DeviceValues(dev, Top(t).path) :
          Finish(t, IF ret[t].has THEN make_double(ret[t].v) ELSE val)
    /\ UNCHANGED dev
    /\ RegistryUnchanged

\* tempctl call_function(set_mode), from a request
CallSetMode(m) ==
    /\ Idle("request")
    /\ dev.mode # m
    /\ dev' = [dev EXCEPT !.mode = m]
    /\ UNCHANGED <<stack, ret, lastReq>>
    /\ RegistryUnchanged

\* a read_signals request for one signal of one device, from the request loop
ReadSignalsRequest(p) ==
    /\ Idle("request")
    /\ stack' = [stack EXCEPT !["request"] = <<Frame("read_signals", "start", p, None)>>]
    /\ ret' = [ret EXCEPT !["request"] = None]
    /\ lastReq' = [path |-> p, cv |-> signal_cache[p], dirty |-> FALSE,
                   done |-> FALSE, result |-> None]
    /\ UNCHANGED dev
    /\ RegistryUnchanged

\* the actuator outputs each device type declares to the ticker
ActuatorSignals(type) ==
    CASE type = "tempctl" -> {"relay1_state", "relay2_state"}
      [] type = "motorctl" -> {"motor1_duty", "motor2_duty"}
      [] type = "relayio" -> {"relay_ch1_state", "relay_ch2_state",
                              "relay_ch3_state", "relay_ch4_state"}
      [] OTHER -> {}

IsActuatorPath(p) == p.s \in ActuatorSignals(DeviceType(p.d))

\* the ticker's maybe_collect_signal(path, out)
MaybeCollectSignal(p) ==
    /\ Idle("ticker")
    /\ IsActuatorPath(p)
    /\ stack' = [stack EXCEPT !["ticker"] =
            <<Frame("maybe_collect_signal", "after_ipd", p, None),
              Frame("is_physics_driven", "lock", p, None)>>]
    /\ ret' = [ret EXCEPT !["ticker"] = None]
    /\ UNCHANGED <<dev, lastReq>>
    /\ RegistryUnchanged

CollectAfterIpd(t) ==
    /\ At(t, "maybe_collect_signal", "after_ipd")
    /\ IF ret[t].v = 1
       THEN stack' = [stack EXCEPT ![t] = Popped(t)]
       ELSE stack' = [stack EXCEPT ![t] =
               CallFrom(t, "after_read", Frame("read_signal", "lock", Top(t).path, None))]
    /\ UNCHANGED <<ret, dev, lastReq>>
    /\ RegistryUnchanged

CollectAfterRead(t) ==
    /\ At(t, "maybe_collect_signal", "after_read")
    /\ stack' = [stack EXCEPT ![t] = Popped(t)]
    /\ UNCHANGED <<ret, dev, lastReq>>
    /\ RegistryUnchanged

-----------------------------------------------------------------------------
(* Process lifecycle: main, start_physics / stop_physics, the ticker threads *)

\* tick period in clock units (1 / tick_rate_hz)
Period == 2

\* clock value after which no new tick is started
MaxTime == 5

Builds == {"core", "legacy"}
Modes == {"inert", "non_interacting", "sim"}

\* the path the engine reports as a sensor in this run
RunPath == Path("tc0", "tc1_temp")

\* variant: the ticker is started at boot in every mode
AutoStartAnyMode(b, m) == b = "core"

\* main: physics starts at boot for non_interacting only (legacy main never)
AutoStart(b, m) == b = "core" /\ m = "non_interacting"

\* variant: the running flag is not consulted
NeverRunning == FALSE

\* start_physics / SimPhysics::start: "already running, skipping"
AlreadyRunning == g_ticker_running

\* start_physics spawns a thread: not inert, engine present, not running
StartSpawns(engine) == g_sim_mode # "inert" /\ engine /\ ~AlreadyRunning

StartPhysics(engine) ==
    IF StartSpawns(engine)
    THEN /\ g_ticker_running' = TRUE
         /\ g_ticker_thread' = "joinable"
         /\ live_threads' = live_threads + 1
         /\ ticker_pc' = "spawned"
         /\ UNCHANGED start_skipped
    ELSE /\ start_skipped' = (start_skipped \/ (g_sim_mode # "inert" /\ engine /\ AlreadyRunning))
         /\ UNCHANGED <<g_ticker_running, g_ticker_thread, live_threads, ticker_pc>>

NoStart == UNCHANGED <<g_ticker_running, g_ticker_thread, live_threads, ticker_pc,
                       start_skipped>>

TickerLocals == <<thread_start, next_tick, now, tick_start, wake_at>>

\* main up to the request loop: engine created, initialize_physics, auto-start
MainBoot ==
    /\ main_pc = "boot"
    /\ main_pc' = "loop"
    /\ g_simulation_engine' = TRUE
    /\ device_reader' = "lambda"
    /\ IF AutoStart(build, g_sim_mode) THEN StartPhysics(TRUE) ELSE NoStart
    /\ UNCHANGED <<physics_driven_signals, signal_cache, registry_mutex, stack, ret,
                   clears, dev, lastReq, tpath>>
    /\ UNCHANGED <<build, g_sim_mode, exit_code, steady_clock, wait_ready_handled,
                   stop_called, ticked>>
    /\ UNCHANGED TickerLocals
    /\ UNCHANGED extVars

\* what stop_physics releases once the thread is gone
Cleanup ==
    /\ physics_driven_signals' = {}
    /\ signal_cache' = [p \in AllPaths |-> None]
    /\ device_reader' = "null"
    /\ g_simulation_engine' = FALSE
    /\ g_ticker_thread' = "null"

\* variant: stop_physics waits for no thread
JoinsNothing == FALSE

\* stop_physics has a thread to join
Joins ==
    IF build = "core"
    THEN g_ticker_thread = "joinable"
    ELSE g_simulation_engine /\ g_ticker_running /\ g_ticker_thread = "joinable"

\* stop_physics, then return code from main
StopPhysics(code) ==
    /\ stop_called' = TRUE
    /\ exit_code' = code
    /\ IF Joins
       THEN /\ g_ticker_running' = FALSE
            /\ main_pc' = "join"
            /\ UNCHANGED <<physics_driven_signals, signal_cache, device_reader,
                           g_simulation_engine, g_ticker_thread>>
       ELSE /\ g_ticker_running' = (build = "legacy" /\ g_ticker_running)
            /\ main_pc' = "exited"
            /\ Cleanup
    /\ UNCHANGED <<registry_mutex, stack, ret, clears, dev, lastReq, tpath>>
    /\ UNCHANGED <<build, g_sim_mode, live_threads, ticker_pc, steady_clock,
                   wait_ready_handled, ticked, start_skipped>>
    /\ UNCHANGED TickerLocals

\* read_frame fails with an empty error: clean EOF
ReadEOF ==
    /\ main_pc = "loop"
    /\ StopPhysics(0)
    /\ UNCHANGED extVars

\* read_frame fails with an error
ReadError ==
    /\ main_pc = "loop"
    /\ StopPhysics(2)
    /\ UNCHANGED extVars

\* the frame is not a Request
ParseFailure ==
    /\ main_pc = "loop"
    /\ main_pc' = "exited"
    /\ exit_code' = 3
    /\ UNCHANGED regVars
    /\ UNCHANGED <<build, g_sim_mode, g_simulation_engine, g_ticker_running,
                   g_ticker_thread, live_threads, ticker_pc, steady_clock,
                   wait_ready_handled, stop_called, ticked, start_skipped>>
    /\ UNCHANGED TickerLocals
    /\ UNCHANGED extVars

\* one request handled; the response is then serialized and written
HandleRequest(kind, outcome) ==
    /\ main_pc = "loop"
    /\ IF kind = "wait_ready"
       THEN /\ wait_ready_handled' = TRUE
            /\ StartPhysics(g_simulation_engine)
       ELSE /\ UNCHANGED wait_ready_handled
            /\ NoStart
    /\ CASE outcome = "ok" -> UNCHANGED <<main_pc, exit_code>>
         [] outcome = "serialize_failure" -> main_pc' = "exited" /\ exit_code' = 4
         [] outcome = "write_failure" -> main_pc' = "exited" /\ exit_code' = 5
    /\ UNCHANGED regVars
    /\ UNCHANGED <<build, g_sim_mode, g_simulation_engine, steady_clock, stop_called,
                   ticked>>
    /\ UNCHANGED TickerLocals
    /\ UNCHANGED extVars

\* stop_physics after join() returned
JoinTicker ==
    /\ main_pc = "join"
    /\ ticker_pc = "done"
    /\ ticker_pc' = "none"
    /\ main_pc' = "exited"
    /\ Cleanup
    /\ UNCHANGED <<registry_mutex, stack, ret, clears, dev, lastReq, tpath>>
    /\ UNCHANGED <<build, g_sim_mode, exit_code, g_ticker_running, live_threads,
                   steady_clock, wait_ready_handled, stop_called, ticked, start_skipped>>
    /\ UNCHANGED TickerLocals
    /\ UNCHANGED extVars

MainUnchanged == UNCHANGED <<build, g_sim_mode, main_pc, exit_code, g_simulation_engine,
                             g_ticker_thread, g_ticker_running, wait_ready_handled,
                             stop_called, start_skipped, steady_clock, extVars>>

RegistryUntouched == UNCHANGED regVars

\* result.sensors written to the registry after a successful tick
WriteSensors ==
    /\ \E v \in PhysValues :
          /\ physics_driven_signals' = physics_driven_signals \cup {RunPath}
          /\ signal_cache' = [signal_cache EXCEPT ![RunPath] = Some(v)]
    /\ UNCHANGED <<device_reader, registry_mutex, stack, ret, clears, dev, lastReq, tpath>>

\* variant: the loop never looks at the flag
LoopForever == TRUE

\* while (g_ticker_running.load()) / while (ticker_running_.load())
LoopCondition == g_ticker_running

\* the thread function returns
ThreadExit ==
    /\ ticker_pc' = "done"
    /\ live_threads' = live_threads - 1

\* ---- ticker_thread_func (engine ticker)

EngineTickerEnter ==
    /\ build = "core" /\ main_pc # "exited"
    /\ ticker_pc = "spawned"
    /\ thread_start' = steady_clock
    /\ next_tick' = steady_clock
    /\ ticker_pc' = "check"
    /\ UNCHANGED <<now, tick_start, wake_at, live_threads, ticked>>
    /\ MainUnchanged
    /\ RegistryUntouched

EngineTickerCheck ==
    /\ build = "core" /\ main_pc # "exited"
    /\ ticker_pc = "check"
    /\ LoopCondition => steady_clock < MaxTime
    /\ IF LoopCondition
       THEN ticker_pc' = "tick" /\ UNCHANGED live_threads
       ELSE ThreadExit
    /\ UNCHANGED <<ticked>>
    /\ UNCHANGED TickerLocals
    /\ MainUnchanged
    /\ RegistryUntouched

\* variant: the schedule restarts from the clock
NextTickRebased(nt, clk) == clk + Period

\* next_tick += tick_duration
NextTickAdvanced(nt, clk) == nt + Period

\* one engine tick, its writes, next_tick += tick_duration, now = clock
EngineTick ==
    /\ build = "core" /\ main_pc # "exited"
    /\ ticker_pc = "tick"
    /\ IF ~g_simulation_engine
       THEN /\ ThreadExit
            /\ UNCHANGED <<ticked, next_tick, now>>
            /\ RegistryUntouched
       ELSE /\ \/ WriteSensors
               \/ RegistryUntouched
            /\ ticked' = TRUE
            /\ next_tick' = NextTickAdvanced(next_tick, steady_clock)
            /\ now' = steady_clock
            /\ ticker_pc' = "catchup"
            /\ UNCHANGED live_threads
    /\ UNCHANGED <<thread_start, tick_start, wake_at>>
    /\ MainUnchanged

\* while (next_tick <= now && g_ticker_running.load()) next_tick += tick_duration
EngineCatchUp ==
    /\ build = "core" /\ main_pc # "exited"
    /\ ticker_pc = "catchup"
    /\ IF next_tick <= now /\ g_ticker_running
       THEN next_tick' = next_tick + Period /\ UNCHANGED ticker_pc
       ELSE ticker_pc' = "sleep" /\ UNCHANGED next_tick
    /\ UNCHANGED <<thread_start, now, tick_start, wake_at, live_threads, ticked>>
    /\ MainUnchanged
    /\ RegistryUntouched

\* sleep_until(next_tick) returns
EngineWake ==
    /\ build = "core" /\ main_pc # "exited"
    /\ ticker_pc = "sleep"
    /\ steady_clock >= next_tick
    /\ ticker_pc' = "check"
    /\ UNCHANGED <<live_threads, ticked>>
    /\ UNCHANGED TickerLocals
    /\ MainUnchanged
    /\ RegistryUntouched

\* ---- SimPhysics::ticker_thread (local ticker)

\* loop test and tick_start = now(); the first tick start is the grid origin
LocalTickerCheck ==
    /\ build = "legacy" /\ main_pc # "exited"
    /\ ticker_pc \in {"spawned", "check"}
    /\ LoopCondition => steady_clock < MaxTime
    /\ IF LoopCondition
       THEN /\ ticker_pc' = "tick"
            /\ tick_start' = steady_clock
            /\ thread_start' = IF ticker_pc = "spawned" THEN steady_clock ELSE thread_start
            /\ UNCHANGED live_threads
       ELSE /\ ThreadExit
            /\ UNCHANGED <<tick_start, thread_start>>
    /\ UNCHANGED <<next_tick, now, wake_at, ticked>>
    /\ MainUnchanged
    /\ RegistryUntouched

\* the tick's work, then sleep_for(tick_duration - elapsed) if time is left
LocalTick ==
    /\ build = "legacy" /\ main_pc # "exited"
    /\ ticker_pc = "tick"
    /\ IF g_sim_mode = "sim" THEN WriteSensors ELSE RegistryUntouched
    /\ ticked' = TRUE
    /\ LET elapsed == steady_clock - tick_start IN
       IF elapsed < Period
       THEN wake_at' = steady_clock + (Period - elapsed) /\ ticker_pc' = "sleep"
       ELSE ticker_pc' = "check" /\ UNCHANGED wake_at
    /\ UNCHANGED <<thread_start, next_tick, now, tick_start, live_threads>>
    /\ MainUnchanged

LocalWake ==
    /\ build = "legacy" /\ main_pc # "exited"
    /\ ticker_pc = "sleep"
    /\ steady_clock >= wake_at
    /\ ticker_pc' = "check"
    /\ UNCHANGED <<live_threads, ticked>>
    /\ UNCHANGED TickerLocals
    /\ MainUnchanged
    /\ RegistryUntouched

\* the time the sleeping ticker waits for
Deadline == IF build = "core" THEN next_tick ELSE wake_at

\* the clock moves on; past MaxTime only to end a sleep in progress
Advance ==
    /\ main_pc # "exited"
    /\ steady_clock < MaxTime \/ (ticker_pc = "sleep" /\ steady_clock < Deadline)
    /\ steady_clock' = steady_clock + 1
    /\ UNCHANGED <<build, g_sim_mode, main_pc, exit_code, g_simulation_engine,
                   g_ticker_thread, g_ticker_running, wait_ready_handled,
                   stop_called, start_skipped, live_threads, ticker_pc, ticked>>
    /\ UNCHANGED TickerLocals
    /\ RegistryUntouched
    /\ UNCHANGED extVars

TickerStep ==
    \/ EngineTickerEnter
    \/ EngineTickerCheck
    \/ EngineTick
    \/ EngineCatchUp
    \/ EngineWake
    \/ LocalTickerCheck
    \/ LocalTick
    \/ LocalWake

\* edge targets of the physics config on registered devices (output_paths_)
OutputPaths == <<Path("tc0", "tc1_temp"), Path("tc0", "tc2_temp")>>
OutputPathSet == {OutputPaths[i] : i \in 1..Len(OutputPaths)}

EmptyCache == [p \in OutputPathSet |-> None]

\* the client as constructed: connected, no session
NewClient ==
    [registered_ |-> FALSE, session_id_ |-> "", provider_id_ |-> "",
     last_tick_occurred_ |-> FALSE, pending_commands_ |-> <<>>,
     signal_cache_ |-> EmptyCache]

\* no adapter call in progress.  statuses, rereg and hit record what the call
\* did: the statuses of its own RPC, the outcome of a re-registration,
\* whether the cache answered, whether LoadConfig reported a change, and the
\* commands of an OK UpdateSignals response
NoCall ==
    [op |-> "none", pc |-> "done", attempt |-> 0, retried_after_unauth |-> FALSE,
     rr_attempt |-> 0, path |-> NoPath, result |-> "", value |-> None,
     statuses |-> <<>>, rereg |-> "none", hit |-> FALSE, changed |-> FALSE,
     commands |-> <<>>]

\* TickResult{false, {}, {}}
FailedTick == [success |-> FALSE, sensors |-> <<>>, commands |-> <<>>]

\* what the last engine call of the ticker returned and what the tick has
\* done with it: the outcome of the adapter's update_signals, the sensors and
\* commands as returned, the writes and command executions so far, and the relay1 state
\* set by the last command that succeeded
NoTickLog ==
    [outcome |-> "none", threw |-> FALSE, sensors |-> <<>>, commands |-> <<>>,
     writes |-> 0, execs |-> 0, relay1 |-> None]

\* the adapter while no engine call is modelled
RpcQuiet ==
    /\ client = NewClient
    /\ rpc = NoCall
    /\ calls = 0

\* the tick's locals while the tick is modelled as one step
TickQuiet ==
    /\ tick_count = 0
    /\ actuators = <<>>
    /\ sensors = <<>>
    /\ next_read = 0
    /\ result = FailedTick
    /\ device_writes = <<>>
    /\ tick_log = NoTickLog
    /\ owed = <<>>

\* ---- fault_injection.cpp

\* the device the control device is asked to fault
FaultTargets == {"tc0"}
FaultSignals == {"tc1_temp"}

\* State of fault_injection.cpp: device_unavailable_faults as device ->
\* optional expires_at, signal_faults as device -> vector of SignalFault
NoFaultState ==
    [device_unavailable_faults |-> [d \in FaultTargets |-> None],
     signal_faults |-> [d \in FaultTargets |-> <<>>]]

\* what was injected since the last clear_all_faults, kept apart from the
\* tables: the expiry of the latest inject_device_unavailable per device,
\* every inject_signal_fault with its expiry instant still ahead, and the
\* value the first read under the signal fault in force returned
NoInjections ==
    [unavailable |-> [d \in FaultTargets |-> None], signal |-> {},
     first_read |-> [s \in FaultSignals |-> None]]

\* no handler has answered yet
NoReply == [kind |-> "none", device_id |-> "", code |-> "", at |-> 0,
            capabilities |-> "", asked |-> {}, values |-> <<>>]

FaultQuiet ==
    /\ fault_state = [tables |-> NoFaultState, injected |-> NoInjections]
    /\ reply = NoReply

\* ---- SimPhysics and the RuleEngine before the first tick

\* ThermalMassModel::init: initial_temp
ModelInitialTemp == 25

NoPhysics == [physics_mutex_ |-> NoThread, temperature_ |-> ModelInitialTemp,
              model_outputs_ |-> 0, model_inputs |-> None, edge |-> 0,
              last_update |-> 0]

NoRules == [rules |-> <<>>, next |-> 0, evaluated |-> <<>>]

PhysQuiet ==
    /\ physics = NoPhysics
    /\ rule_engine = NoRules

\* a thread outside every device function
Outside == [op |-> "none", seen |-> None, arg |-> ""]

NoAccess == [request |-> Outside, ticker |-> Outside]

AccessQuiet == device_access = NoAccess

\* no transform configured, nothing sampled
NoTransforms == [linear_states_ |-> None, delay_states_ |-> <<>>, sim_time |-> 0]

NoSamples == [tick |-> 0, inputs |-> <<>>, outputs |-> <<>>, linear |-> None,
              temp |-> None]

TransformQuiet == transforms = NoTransforms /\ samples = NoSamples

RestQuiet == FaultQuiet /\ PhysQuiet /\ AccessQuiet /\ TransformQuiet

\* no request parsed yet, no response written yet
NoRequest == [n |-> 0, req |-> "none", mode |-> "", injected |-> FALSE]
NoResponse == [n |-> 0, request_id |-> 0, code |-> ""]

\* stdin and stdout while the request loop is not exercised
IoQuiet ==
    /\ cin = <<>>
    /\ cin_open = FALSE
    /\ cin_tail = "frames"
    /\ unread = <<>>
    /\ written = 0
    /\ frame = <<>>
    /\ io_err = ""
    /\ request = NoRequest
    /\ cout = NoResponse
    /\ faults = [unavailable |-> {}, call_failure |-> {}]

\* the lifecycle variables while only the registry is exercised: physics
\* initialised and started, the ticker in its loop
RunQuiet ==
    /\ build = "core"
    /\ g_sim_mode = "sim"
    /\ main_pc = "loop"
    /\ exit_code = 0
    /\ g_simulation_engine = TRUE
    /\ g_ticker_running = TRUE
    /\ g_ticker_thread = "joinable"
    /\ live_threads = 1
    /\ ticker_pc = "tick"
    /\ thread_start = 0 /\ next_tick = 0 /\ now = 0 /\ tick_start = 0 /\ wake_at = 0
    /\ steady_clock = 0
    /\ wait_ready_handled = TRUE
    /\ stop_called = FALSE
    /\ ticked = FALSE
    /\ start_skipped = FALSE

InitRun ==
    /\ build \in Builds
    /\ g_sim_mode \in Modes
    /\ main_pc = "boot"
    /\ exit_code = 0
    /\ g_simulation_engine = FALSE
    /\ g_ticker_running = FALSE
    /\ g_ticker_thread = "null"
    /\ live_threads = 0
    /\ ticker_pc = "none"
    /\ thread_start = 0 /\ next_tick = 0 /\ now = 0 /\ tick_start = 0 /\ wake_at = 0
    /\ steady_clock = 0
    /\ wait_ready_handled = FALSE
    /\ stop_called = FALSE
    /\ ticked = FALSE
    /\ start_skipped = FALSE
    /\ physics_driven_signals = {}
    /\ signal_cache = [p \in AllPaths |-> None]
    /\ device_reader = "null"
    /\ registry_mutex = NoThread
    /\ stack = [t \in Threads |-> <<>>]
    /\ ret = [t \in Threads |-> None]
    /\ clears = 0
    /\ dev = InitDev
    /\ lastReq = NoReq
    /\ tpath = RunPath
    /\ IoQuiet
    /\ RpcQuiet
    /\ TickQuiet
    /\ RestQuiet

NextRun ==
    \/ MainBoot
    \/ ReadEOF
    \/ ReadError
    \/ ParseFailure
    \/ \E kind \in {"wait_ready", "other"},
          outcome \in {"ok", "serialize_failure", "write_failure"} :
             HandleRequest(kind, outcome)
    \/ JoinTicker
    \/ TickerStep
    \/ Advance

SpecRun == InitRun /\ [][NextRun]_vars

\* scheduling is fair to the ticker thread and to main, and time passes
SpecRunFair ==
    /\ SpecRun
    /\ WF_vars(TickerStep)
    /\ WF_vars(JoinTicker)
    /\ WF_vars(Advance)

-----------------------------------------------------------------------------
(* Framed stdio: uint32_le length prefix, then the payload.  A byte string *)
(* is a sequence of runs [b, n] (n copies of byte b), kept canonical, so   *)
(* that payloads up to the frame limit stay small values.                  *)

\* frames stdin carries in one run
MaxFrames == 2

\* bytes the peer may cut off the end of the stream
MaxCut == 4

kMaxFrameBytes == 1048576

Run(b, n) == [b |-> b, n |-> n]

\* std::vector<uint8_t>::size
RECURSIVE size(_)
size(bytes) == IF bytes = <<>> THEN 0 ELSE bytes[1].n + size(Tail(bytes))

\* the canonical byte string: no empty run, no two adjacent runs of one byte
RECURSIVE Bytes(_)
Bytes(runs) ==
    IF runs = <<>> THEN <<>>
    ELSE LET h == runs[1]
             rest == Bytes(Tail(runs))
         IN  IF h.n = 0 THEN rest
             ELSE IF rest # <<>> /\ rest[1].b = h.b
                  THEN <<Run(h.b, h.n + rest[1].n)>> \o Tail(rest)
                  ELSE <<h>> \o rest

\* the first n bytes (fewer when the string ends)
RECURSIVE Take(_, _)
Take(bytes, n) ==
    IF n = 0 \/ bytes = <<>> THEN <<>>
    ELSE IF bytes[1].n <= n
         THEN Bytes(<<bytes[1]>> \o Take(Tail(bytes), n - bytes[1].n))
         ELSE <<Run(bytes[1].b, n)>>

\* what follows the first n bytes
RECURSIVE Drop(_, _)
Drop(bytes, n) ==
    IF n = 0 \/ bytes = <<>> THEN bytes
    ELSE IF bytes[1].n <= n
         THEN Drop(Tail(bytes), n - bytes[1].n)
         ELSE <<Run(bytes[1].b, bytes[1].n - n)>> \o Tail(bytes)

\* byte i (from 1) of a string that has one
RECURSIVE ByteAt(_, _)
ByteAt(bytes, i) ==
    IF i <= bytes[1].n THEN bytes[1].b ELSE ByteAt(Tail(bytes), i - bytes[1].n)

decode_u32_le(b) ==
    ByteAt(b, 1) + 256 * ByteAt(b, 2) + 65536 * ByteAt(b, 3) + 16777216 * ByteAt(b, 4)

encode_u32_le(v) ==
    Bytes(<<Run(v % 256, 1), Run((v \div 256) % 256, 1),
            Run((v \div 65536) % 256, 1), Run((v \div 16777216) % 256, 1)>>)

\* read_exact: n bytes or failure at the end of the stream
read_exact(in, n) ==
    [ok |-> size(in) >= n, data |-> Take(in, n), rest |-> Drop(in, n)]

ErrHeader == "unexpected EOF while reading frame header"
ErrZero == "invalid frame length: 0"
ErrMax == "frame length exceeds max"
ErrPayload == "unexpected EOF while reading frame payload"

FrameFailure(err, rest) == [ok |-> FALSE, out |-> <<>>, err |-> err, rest |-> rest]

\* variant: a frame of exactly max_len bytes is refused
FrameTooLongInclusive(len, max_len) == len >= max_len

\* read_frame: len > max_len
FrameTooLong(len, max_len) == len > max_len

\* variant: a stream that ends before the first header byte is an error
EofBeforeHeaderIsError == ErrHeader

\* err when the stream ends before the first header byte: none, clean EOF
EofBeforeHeader == ""

\* read_frame on the unread bytes `in`: result, payload, err and what is left
read_frame(in, max_len) ==
    IF in = <<>> THEN FrameFailure(EofBeforeHeader, <<>>)
    ELSE LET more == read_exact(Drop(in, 1), 3) IN
         IF ~more.ok THEN FrameFailure(ErrHeader, more.rest)
         ELSE LET len == decode_u32_le(Take(in, 4)) IN
              IF len = 0 THEN FrameFailure(ErrZero, more.rest)
              ELSE IF FrameTooLong(len, max_len) THEN FrameFailure(ErrMax, more.rest)
              ELSE LET payload == read_exact(more.rest, len) IN
                   IF ~payload.ok THEN FrameFailure(ErrPayload, payload.rest)
                   ELSE [ok |-> TRUE, out |-> payload.data, err |-> "",
                         rest |-> payload.rest]

\* write_frame appending to the bytes `out` of a good stream (the check
\* against 0xFFFFFFFF lies behind the one against max_len <= kMaxFrameBytes)
write_frame(out, data, max_len) ==
    LET len == size(data) IN
    IF len = 0 THEN [ok |-> FALSE, err |-> ErrZero, out |-> out]
    ELSE IF len > max_len THEN [ok |-> FALSE, err |-> ErrMax, out |-> out]
    ELSE [ok |-> TRUE, err |-> "", out |-> Bytes(out \o encode_u32_le(len) \o data)]

-----------------------------------------------------------------------------
(* Requests, the handlers and the request loop of main                     *)

kFnSetMode == 1
kFnSetSetpoint == 2
kFnSetRelay == 3

NoArgs == [mode |-> "", value |-> None, relay_index |-> None, state |-> ""]
NoFaults == [unavailable |-> {}, call_failure |-> {}]

Req(id, kind, device_id, function_id, args) ==
    [request_id |-> id, kind |-> kind, device_id |-> device_id,
     function_id |-> function_id, function_name |-> "", signal_ids |-> {},
     protocol_version |-> "", args |-> args]

Garbage == [request_id |-> 0, kind |-> "garbage", device_id |-> "", function_id |-> 0,
            function_name |-> "", signal_ids |-> {}, protocol_version |-> "",
            args |-> NoArgs]

\* len bytes, the first one given
Padded(first, len) == Bytes(<<Run(first, 1), Run(0, len - 1)>>)

\* the peer's messages with their serialization: the first byte tells them
\* apart, padding gives the lengths whose prefix uses each header byte
\* (function id 9 is one no device declares)
Wire ==
    << [msg |-> Req(1, "wait_ready", "", 0, NoArgs), bytes |-> Padded(1, 1)],
       [msg |-> Req(2, "describe_device", "nope", 0, NoArgs), bytes |-> Padded(2, 65536)],
       [msg |-> Req(3, "read_signals", "tc0", 0, NoArgs), bytes |-> Padded(3, 256)],
       [msg |-> Req(4, "call", "tc0", kFnSetMode, [NoArgs EXCEPT !.mode = "closed"]),
        bytes |-> Padded(4, kMaxFrameBytes)],
       [msg |-> Req(5, "call", "tc0", kFnSetMode, [NoArgs EXCEPT !.mode = "auto"]),
        bytes |-> Padded(5, 2)],
       [msg |-> Req(6, "call", "tc0", kFnSetRelay,
                    [NoArgs EXCEPT !.relay_index = Some(1), !.state = "on"]),
        bytes |-> Padded(6, 255)],
       [msg |-> Req(7, "call", "tc0", 9, NoArgs), bytes |-> Padded(7, 3)],
       [msg |-> Req(8, "none", "", 0, NoArgs), bytes |-> Padded(8, 4)],
       [msg |-> Garbage, bytes |-> Padded(255, 5)] >>

\* payloads handed to write_frame: the serialized messages, an empty one and
\* one a byte longer than the limit
Payloads ==
    {Wire[i].bytes : i \in 1..Len(Wire)} \cup {<<>>, Padded(9, kMaxFrameBytes + 1)}

\* Request::ParseFromArray
ParseFromArray(bytes) ==
    IF \E i \in 1..Len(Wire) : Wire[i].bytes = bytes
    THEN Wire[CHOOSE i \in 1..Len(Wire) : Wire[i].bytes = bytes].msg
    ELSE Garbage

bad(s) == [code |-> "INVALID_ARGUMENT", dev |-> s]
nf(s) == [code |-> "NOT_FOUND", dev |-> s]
precond(s) == [code |-> "FAILED_PRECONDITION", dev |-> s]
ok(s) == [code |-> "OK", dev |-> s]

\* tempctl::call_function on the device state s
TempctlCallFunction(s, function_id, args) ==
    IF function_id = kFnSetMode
    THEN IF args.mode = "" THEN bad(s)
         ELSE IF args.mode \notin {"open", "closed"} THEN bad(s)
         ELSE ok([s EXCEPT !.mode = args.mode])
    ELSE IF function_id = kFnSetSetpoint
    THEN IF ~args.value.has THEN bad(s)
         ELSE IF args.value.v < 0 - 50 \/ args.value.v > 400 THEN bad(s)
         ELSE ok([s EXCEPT !.setpoint_c = args.value.v])
    ELSE IF function_id = kFnSetRelay
    THEN IF s.mode # "open" THEN precond(s)
         ELSE IF ~args.relay_index.has THEN bad(s)
         ELSE IF args.relay_index.v \notin {1, 2} THEN bad(s)
         ELSE IF args.state = "" THEN bad(s)
         ELSE IF args.relay_index.v = 1
              THEN ok([s EXCEPT !.relay1 = (args.state = "on")])
              ELSE ok([s EXCEPT !.relay2 = (args.state = "on")])
    ELSE nf(s)

\* sim_devices::call_function; `fails` is the draw of should_call_fail.
\* The requests of this model address the tempctl device or no device.
call_function(device_id, function_id, args, s, flt, fails) ==
    IF device_id \in flt.unavailable THEN bad(s)
    ELSE IF fails THEN bad(s)
    ELSE IF device_id \notin Devices THEN nf(s)
    ELSE IF DeviceType(device_id) = "tempctl"
         THEN TempctlCallFunction(s, function_id, args)
         ELSE nf(s)

\* sim_devices::read_signals for a tempctl device none of whose signals is
\* physics-driven: the signal ids answered and the state after update_control
read_signals(device_id, signal_ids, s, flt) ==
    IF device_id \in flt.unavailable \/ device_id \notin Devices
    THEN [ids |-> {}, dev |-> s]
    ELSE [ids |-> IF signal_ids = {}
                  THEN {"tc1_temp", "tc2_temp", "relay1_state", "relay2_state"}
                  ELSE signal_ids \cap (TempctlSignals \cup {"control_mode"}),
          dev |-> IF s.mode = "closed" THEN BangBang(s, s.tc1_c) ELSE s]

handle_hello(req, s) ==
    IF req.protocol_version # "v1" THEN precond(s) ELSE ok(s)

\* sim_devices::list_devices: the ids listed; a registered device under an
\* unavailable fault is left out, the control device comes last
list_devices(flt) == (Devices \ flt.unavailable) \cup {"chaos_control"}

handle_describe_device(req, s, flt) ==
    IF req.device_id = "" THEN bad(s)
    ELSE IF req.device_id \notin list_devices(flt) THEN nf(s)
    ELSE ok(s)

handle_read_signals(req, s, flt) ==
    IF req.device_id = "" THEN bad(s)
    ELSE IF req.device_id \notin Devices THEN nf(s)
    ELSE LET values == read_signals(req.device_id, req.signal_ids, s, flt) IN
         IF req.signal_ids # {} /\ values.ids = {} THEN nf(values.dev)
         ELSE ok(values.dev)

\* variant: the CallResult code is not looked at
handle_call_result_dropped(req, s, flt, fails) ==
    ok(call_function(req.device_id, req.function_id, req.args, s, flt, fails).dev)

handle_call(req, s, flt, fails) ==
    IF req.device_id = "" THEN bad(s)
    ELSE IF req.function_id = 0 /\ req.function_name = "" THEN bad(s)
    ELSE IF req.function_id = 0 THEN [code |-> "UNIMPLEMENTED", dev |-> s]
    ELSE call_function(req.device_id, req.function_id, req.args, s, flt, fails)

\* the dispatch of main: status code of the response and the device state
Dispatch(req, s, flt, fails) ==
    CASE req.kind = "hello" -> handle_hello(req, s)
      [] req.kind = "wait_ready" -> ok(s)
      [] req.kind = "list_devices" -> ok(s)
      [] req.kind = "describe_device" -> handle_describe_device(req, s, flt)
      [] req.kind = "read_signals" -> handle_read_signals(req, s, flt)
      [] req.kind = "call" -> handle_call(req, s, flt, fails)
      [] req.kind = "get_health" -> ok(s)
      [] OTHER -> [code |-> "UNIMPLEMENTED", dev |-> s]

\* ---- the peer on the other end of stdin

\* one frame written with write_frame
PeerWriteFrame(B) ==
    /\ main_pc = "loop"
    /\ cin_open /\ cin_tail = "frames"
    /\ written < MaxFrames
    /\ LET w == write_frame(cin, B, kMaxFrameBytes) IN
       /\ cin' = w.out
       /\ unread' = IF w.ok THEN Append(unread, B) ELSE unread
       /\ written' = IF w.ok THEN written + 1 ELSE written
    /\ UNCHANGED <<cin_open, cin_tail, frame, io_err, request, cout, faults>>
    /\ UNCHANGED <<rpcVars, tickVars, restVars>>
    /\ UNCHANGED <<regVars, runVars>>

\* a bare header announcing len bytes, and the stream ends
PeerWriteHeader(len) ==
    /\ main_pc = "loop"
    /\ cin_open /\ cin_tail = "frames"
    /\ cin' = Bytes(cin \o encode_u32_le(len))
    /\ cin_tail' = IF len = 0 THEN "zero_length"
                   ELSE IF len > kMaxFrameBytes THEN "over_length"
                   ELSE "cut_payload"
    /\ cin_open' = FALSE
    /\ UNCHANGED <<unread, written, frame, io_err, request, cout, faults>>
    /\ UNCHANGED <<rpcVars, tickVars, restVars>>
    /\ UNCHANGED <<regVars, runVars>>

\* the stream ends k bytes before the end of the last frame, still unread
PeerCut(k) ==
    /\ main_pc = "loop"
    /\ cin_open /\ cin_tail = "frames"
    /\ unread # <<>>
    /\ LET kept == 4 + size(unread[Len(unread)]) - k IN
       /\ kept >= 1
       /\ cin' = Take(cin, size(cin) - k)
       /\ cin_tail' = IF kept < 4 THEN "cut_header" ELSE "cut_payload"
    /\ unread' = SubSeq(unread, 1, Len(unread) - 1)
    /\ cin_open' = FALSE
    /\ UNCHANGED <<written, frame, io_err, request, cout, faults>>
    /\ UNCHANGED <<rpcVars, tickVars, restVars>>
    /\ UNCHANGED <<regVars, runVars>>

PeerClose ==
    /\ main_pc = "loop"
    /\ cin_open
    /\ cin_open' = FALSE
    /\ UNCHANGED <<cin, cin_tail, unread, written, frame, io_err, request, cout, faults>>
    /\ UNCHANGED <<rpcVars, tickVars, restVars>>
    /\ UNCHANGED <<regVars, runVars>>

\* ---- the request loop of main, one iteration per step

\* read_frame is still waiting for bytes the peer may send
Blocked(r) == cin_open /\ ~r.ok /\ r.err \in {"", ErrHeader, ErrPayload}

\* read_frame fails: clean EOF returns 0, an error returns 2
LoopReadFailure ==
    /\ main_pc = "loop"
    /\ LET r == read_frame(cin, kMaxFrameBytes) IN
       /\ ~r.ok /\ ~Blocked(r)
       /\ cin' = r.rest
       /\ io_err' = r.err
       /\ StopPhysics(IF r.err = "" THEN 0 ELSE 2)
    /\ frame' = <<>>
    /\ UNCHANGED <<cin_open, cin_tail, unread, written, request, cout, faults>>
    /\ UNCHANGED <<rpcVars, tickVars, restVars>>

\* the frame read is not a Request: return 3
LoopParseFailure ==
    /\ main_pc = "loop"
    /\ LET r == read_frame(cin, kMaxFrameBytes) IN
       /\ r.ok
       /\ ParseFromArray(r.out).kind = "garbage"
       /\ cin' = r.rest
       /\ io_err' = r.err
       /\ frame' = r.out
    /\ unread' = Tail(unread)
    /\ main_pc' = "exited"
    /\ exit_code' = 3
    /\ UNCHANGED regVars
    /\ UNCHANGED <<build, g_sim_mode, g_simulation_engine, g_ticker_running,
                   g_ticker_thread, live_threads, ticker_pc, steady_clock,
                   wait_ready_handled, stop_called, ticked, start_skipped>>
    /\ UNCHANGED TickerLocals
    /\ UNCHANGED <<cin_open, cin_tail, written, request, cout, faults>>
    /\ UNCHANGED <<rpcVars, tickVars, restVars>>

\* a request read, dispatched and answered; `outcome` is that of
\* SerializeToString and write_frame on std::cout
LoopRequest(outcome, fails) ==
    /\ main_pc = "loop"
    /\ LET r == read_frame(cin, kMaxFrameBytes)
           req == ParseFromArray(r.out)
           resp == Dispatch(req, dev, faults, fails)
       IN  /\ r.ok
           /\ req.kind # "garbage"
           /\ fails => (req.kind = "call" /\ req.device_id \in faults.call_failure)
           /\ cin' = r.rest
           /\ io_err' = r.err
           /\ frame' = r.out
           /\ request' = [n |-> request.n + 1, req |-> req, mode |-> dev.mode,
                          injected |-> fails]
           /\ dev' = resp.dev
           /\ cout' = IF outcome = "ok"
                      THEN [n |-> cout.n + 1, request_id |-> req.request_id,
                            code |-> resp.code]
                      ELSE cout
           /\ IF req.kind = "wait_ready"
              THEN /\ wait_ready_handled' = TRUE
                   /\ StartPhysics(g_simulation_engine)
              ELSE /\ UNCHANGED wait_ready_handled
                   /\ NoStart
    /\ unread' = Tail(unread)
    /\ CASE outcome = "ok" -> UNCHANGED <<main_pc, exit_code>>
         [] outcome = "serialize_failure" -> main_pc' = "exited" /\ exit_code' = 4
         [] outcome = "write_failure" -> main_pc' = "exited" /\ exit_code' = 5
    /\ UNCHANGED <<physics_driven_signals, signal_cache, device_reader, registry_mutex,
                   stack, ret, clears, lastReq, tpath>>
    /\ UNCHANGED <<build, g_sim_mode, g_simulation_engine, steady_clock, stop_called,
                   ticked>>
    /\ UNCHANGED TickerLocals
    /\ UNCHANGED <<cin_open, cin_tail, written, faults>>
    /\ UNCHANGED <<rpcVars, tickVars, restVars>>

\* main in its request loop in inert mode: an engine, no ticker thread; one
\* fault injected on the tempctl device (a call-failure rate lets calls pass)
InitFrames ==
    /\ build = "core"
    /\ g_sim_mode = "inert"
    /\ main_pc = "loop"
    /\ exit_code = 0
    /\ g_simulation_engine = TRUE
    /\ g_ticker_running = FALSE
    /\ g_ticker_thread = "null"
    /\ live_threads = 0
    /\ ticker_pc = "none"
    /\ thread_start = 0 /\ next_tick = 0 /\ now = 0 /\ tick_start = 0 /\ wake_at = 0
    /\ steady_clock = 0
    /\ wait_ready_handled = FALSE
    /\ stop_called = FALSE
    /\ ticked = FALSE
    /\ start_skipped = FALSE
    /\ physics_driven_signals = {}
    /\ signal_cache = [p \in AllPaths |-> None]
    /\ device_reader = "lambda"
    /\ registry_mutex = NoThread
    /\ stack = [t \in Threads |-> <<>>]
    /\ ret = [t \in Threads |-> None]
    /\ clears = 0
    /\ dev = InitDev
    /\ lastReq = NoReq
    /\ tpath = NoPath
    /\ cin = <<>>
    /\ cin_open = TRUE
    /\ cin_tail = "frames"
    /\ unread = <<>>
    /\ written = 0
    /\ frame = <<>>
    /\ io_err = ""
    /\ request = NoRequest
    /\ cout = NoResponse
    /\ faults \in {[NoFaults EXCEPT !.unavailable = {"tc0"}],
                   [NoFaults EXCEPT !.call_failure = {"tc0"}]}
    /\ RpcQuiet
    /\ TickQuiet
    /\ RestQuiet

NextFrames ==
    \/ \E B \in Payloads : PeerWriteFrame(B)
    \/ \E len \in {0, kMaxFrameBytes, kMaxFrameBytes + 1} : PeerWriteHeader(len)
    \/ \E k \in 1..MaxCut : PeerCut(k)
    \/ PeerClose
    \/ LoopReadFailure
    \/ LoopParseFailure
    \/ \E outcome \in {"ok", "serialize_failure", "write_failure"}, fails \in BOOLEAN :
          LoopRequest(outcome, fails)

SpecFrames == InitFrames /\ [][NextFrames]_vars

-----------------------------------------------------------------------------
(* FluxGraphClient: the adapter's RPC calls.  One step per RPC attempt; the  *)
(* server's answer (status and response fields) is chosen freely.            *)

\* adapter calls begun in one run of the client on its own
MaxCalls == 4

kMaxRpcAttempts == 2

\* grpc status codes the server answers with (one retryable, two not)
Statuses == {"OK", "UNAVAILABLE", "UNAUTHENTICATED", "INTERNAL"}

is_retryable_status(status) ==
    status \in {"UNAVAILABLE", "DEADLINE_EXCEEDED", "RESOURCE_EXHAUSTED", "ABORTED"}

\* engine commands: device, function name, arguments
Command(device, function, args) ==
    [device_id |-> device, function_name |-> function, args |-> args]
RelayOn == Command("tc0", "set_relay", [NoArgs EXCEPT !.relay_index = Some(1), !.state = "on"])
RelayOff == Command("tc0", "set_relay", [NoArgs EXCEPT !.relay_index = Some(1), !.state = "off"])

\* command lists a TickResponse carries
CommandLists == {<<>>, <<RelayOn>>, <<RelayOn, RelayOff>>}

\* the client after register_provider succeeded
RegisteredClient ==
    [NewClient EXCEPT !.registered_ = TRUE, !.session_id_ = "sid",
                      !.provider_id_ = "provider-sim"]

\* variant: the cache is kept
cache_kept(c) == c

invalidate_cache(c) == [c EXCEPT !.signal_cache_ = EmptyCache]

Call(op, p) == [NoCall EXCEPT !.op = op, !.pc = "rpc", !.path = p]
Return(call, outcome) == [call EXCEPT !.pc = "done", !.result = outcome]
Answered(call, status) == [call EXCEPT !.statuses = Append(@, status)]

\* variant: retry whatever the status
RetryAlways(call, status) ==
    IF call.attempt + 1 >= kMaxRpcAttempts
    THEN Return(Answered(call, status), "throw")
    ELSE [Answered(call, status) EXCEPT !.attempt = @ + 1]

\* the loop of load_config_content, register_provider and reset after a
\* status that is not OK
RetryOrThrow(call, status) ==
    IF ~is_retryable_status(status) \/ call.attempt + 1 >= kMaxRpcAttempts
    THEN Return(Answered(call, status), "throw")
    ELSE [Answered(call, status) EXCEPT !.attempt = @ + 1]

ClientIdle == rpc.pc = "done"

\* ---- load_config_content

LoadConfigCall == rpc' = Call("load_config_content", NoPath) /\ UNCHANGED client

LoadConfigRpc ==
    /\ rpc.op = "load_config_content" /\ rpc.pc = "rpc"
    /\ \E status \in Statuses, success \in BOOLEAN, config_changed \in BOOLEAN :
          IF status = "OK"
          THEN /\ rpc' = [Return(Answered(rpc, status), IF success THEN "void" ELSE "throw")
                            EXCEPT !.changed = success /\ config_changed]
               /\ client' = IF success /\ config_changed
                            THEN invalidate_cache(
                                    [client EXCEPT !.registered_ = FALSE,
                                                   !.session_id_ = "",
                                                   !.last_tick_occurred_ = FALSE,
                                                   !.pending_commands_ = <<>>])
                            ELSE client
          ELSE /\ rpc' = RetryOrThrow(rpc, status)
               /\ UNCHANGED client

\* ---- register_provider

RegisterProviderCall == rpc' = Call("register_provider", NoPath) /\ UNCHANGED client

RegisterProviderRpc ==
    /\ rpc.op = "register_provider" /\ rpc.pc = "rpc"
    /\ \E status \in Statuses, success \in BOOLEAN :
          IF status = "OK"
          THEN /\ rpc' = Return(Answered(rpc, status), IF success THEN "void" ELSE "throw")
               /\ client' = IF success
                            THEN [client EXCEPT !.provider_id_ = "provider-sim",
                                                !.session_id_ = "sid",
                                                !.registered_ = TRUE]
                            ELSE client
          ELSE /\ rpc' = RetryOrThrow(rpc, status)
               /\ UNCHANGED client

\* ---- reset

ResetCall == rpc' = Call("reset", NoPath) /\ UNCHANGED client

ResetRpc ==
    /\ rpc.op = "reset" /\ rpc.pc = "rpc"
    /\ \E status \in Statuses, success \in BOOLEAN :
          IF status = "OK"
          THEN /\ rpc' = Return(Answered(rpc, status), IF success THEN "void" ELSE "throw")
               /\ client' = IF success
                            THEN invalidate_cache(
                                    [client EXCEPT !.last_tick_occurred_ = FALSE,
                                                   !.pending_commands_ = <<>>])
                            ELSE client
          ELSE /\ rpc' = RetryOrThrow(rpc, status)
               /\ UNCHANGED client

\* ---- update_signals

\* variant: the call is sent whether or not a session is registered
UpdateSignalsCallUnguarded ==
    /\ rpc' = Call("update_signals", NoPath)
    /\ UNCHANGED client

\* throws at once without a session
UpdateSignalsCall ==
    /\ rpc' = IF client.registered_
              THEN Call("update_signals", NoPath)
              ELSE Return(Call("update_signals", NoPath), "throw")
    /\ UNCHANGED client

\* the OK branch: if (last_tick_occurred_) invalidate_cache()
AfterTick(c) == IF c.last_tick_occurred_ THEN invalidate_cache(c) ELSE c

UpdateSignalsRpc ==
    /\ rpc.op = "update_signals" /\ rpc.pc = "rpc"
    /\ \E status \in Statuses, tick_occurred \in BOOLEAN, commands \in CommandLists :
          IF status = "OK"
          THEN /\ client' = AfterTick([client EXCEPT !.last_tick_occurred_ = tick_occurred,
                                                     !.pending_commands_ = commands])
               /\ rpc' = [Return(Answered(rpc, status),
                                 IF tick_occurred THEN "true" ELSE "false")
                            EXCEPT !.commands = commands]
          ELSE IF status = "UNAUTHENTICATED" /\ ~rpc.retried_after_unauth
          THEN /\ client' = [client EXCEPT !.registered_ = FALSE, !.session_id_ = ""]
               /\ rpc' = [Answered(rpc, status) EXCEPT !.retried_after_unauth = TRUE,
                                                       !.pc = "reregister",
                                                       !.rr_attempt = 0]
          ELSE IF is_retryable_status(status) /\ rpc.attempt + 1 < kMaxRpcAttempts
          THEN /\ rpc' = [Answered(rpc, status) EXCEPT !.attempt = @ + 1]
               /\ UNCHANGED client
          ELSE /\ rpc' = Return(Answered(rpc, status), "throw")
               /\ UNCHANGED client

\* ---- read_signal

\* a cached path is answered without an RPC
ReadSignalCall(p) ==
    /\ rpc' = IF client.signal_cache_[p].has
              THEN [Return(Call("read_signal", p), "value") EXCEPT
                        !.value = client.signal_cache_[p], !.hit = TRUE]
              ELSE Call("read_signal", p)
    /\ UNCHANGED client

ReadSignalRpc ==
    /\ rpc.op = "read_signal" /\ rpc.pc = "rpc"
    /\ \E status \in Statuses, signals_size \in {0, 1}, v \in PhysValues :
          IF status = "OK"
          THEN IF signals_size # 1
               THEN /\ rpc' = Return(Answered(rpc, status), "nullopt")
                    /\ UNCHANGED client
               ELSE /\ client' = [client EXCEPT !.signal_cache_[rpc.path] = Some(v)]
                    /\ rpc' = [Return(Answered(rpc, status), "value") EXCEPT
                                   !.value = Some(v)]
          ELSE IF status = "UNAUTHENTICATED" /\ ~rpc.retried_after_unauth
                  /\ client.registered_
          THEN /\ rpc' = [Answered(rpc, status) EXCEPT !.retried_after_unauth = TRUE,
                                                       !.pc = "reregister",
                                                       !.rr_attempt = 0]
               /\ UNCHANGED client
          ELSE IF ~is_retryable_status(status) \/ rpc.attempt + 1 >= kMaxRpcAttempts
          THEN /\ rpc' = Return(Answered(rpc, status), "nullopt")
               /\ UNCHANGED client
          ELSE /\ rpc' = [Answered(rpc, status) EXCEPT !.attempt = @ + 1]
               /\ UNCHANGED client

\* ---- try_reregister_session, and the caller's loop after it

\* `continue` after a successful re-registration: ++attempt, then the loop
\* test; after a failed one update_signals breaks and throws, read_signal
\* falls to its non-retryable return
AfterReregister(call, success) ==
    LET failure == IF call.op = "update_signals" THEN "throw" ELSE "nullopt"
        done == [call EXCEPT !.rereg = IF success THEN "ok" ELSE "failed"]
    IN  IF ~success THEN Return(done, failure)
        ELSE IF call.attempt + 1 < kMaxRpcAttempts
             THEN [done EXCEPT !.attempt = @ + 1, !.pc = "rpc"]
             ELSE Return([done EXCEPT !.attempt = @ + 1], failure)

TryReregisterSession ==
    /\ rpc.pc = "reregister"
    /\ IF client.provider_id_ = ""
       THEN /\ rpc' = AfterReregister(rpc, FALSE)
            /\ UNCHANGED client
       ELSE \E status \in Statuses, success \in BOOLEAN :
               IF status = "OK"
               THEN /\ rpc' = AfterReregister(rpc, success)
                    /\ client' = IF success
                                 THEN [client EXCEPT !.session_id_ = "sid",
                                                     !.registered_ = TRUE]
                                 ELSE client
               ELSE IF ~is_retryable_status(status)
                       \/ rpc.rr_attempt + 1 >= kMaxRpcAttempts
               THEN /\ rpc' = AfterReregister(rpc, FALSE)
                    /\ UNCHANGED client
               ELSE /\ rpc' = [rpc EXCEPT !.rr_attempt = @ + 1]
                    /\ UNCHANGED client

\* ---- drain_commands

\* variant: the pending list is copied out and kept
drain_commands_copies(c) == c

drain_commands(c) == [c EXCEPT !.pending_commands_ = <<>>]

\* ---- the client under arbitrary callers

ClientOnly ==
    /\ UNCHANGED <<regVars, runVars, ioVars, restVars, tickVars>>

BeginCall ==
    /\ ClientIdle
    /\ calls < MaxCalls
    /\ calls' = calls + 1
    /\ \/ LoadConfigCall
       \/ RegisterProviderCall
       \/ ResetCall
       \/ UpdateSignalsCall
       \/ \E p \in OutputPathSet : ReadSignalCall(p)
    /\ ClientOnly

DrainCommands ==
    /\ ClientIdle
    /\ client.pending_commands_ # <<>>
    /\ client' = drain_commands(client)
    /\ UNCHANGED <<rpc, calls>>
    /\ ClientOnly

RpcStep ==
    /\ \/ LoadConfigRpc
       \/ RegisterProviderRpc
       \/ ResetRpc
       \/ UpdateSignalsRpc
       \/ ReadSignalRpc
       \/ TryReregisterSession
    /\ UNCHANGED calls
    /\ ClientOnly

InitClient ==
    /\ physics_driven_signals = OutputPathSet
    /\ signal_cache = [p \in AllPaths |-> None]
    /\ device_reader = "lambda"
    /\ registry_mutex = NoThread
    /\ stack = [t \in Threads |-> <<>>]
    /\ ret = [t \in Threads |-> None]
    /\ clears = 0
    /\ dev = InitDev
    /\ lastReq = NoReq
    /\ tpath = NoPath
    /\ RunQuiet
    /\ IoQuiet
    /\ TickQuiet
    /\ RestQuiet
    /\ client \in {NewClient, RegisteredClient}
    /\ rpc = NoCall
    /\ calls = 0

NextClient ==
    \/ BeginCall
    \/ DrainCommands
    \/ RpcStep

SpecClient == InitClient /\ [][NextClient]_vars

-----------------------------------------------------------------------------
(* One ticker iteration step by step: control update, actuator collection, *)
(* the engine call through the adapter, sensor writes, command execution,  *)
(* schedule advance; and the local ticker's graph evaluation, device       *)
(* writes and rule evaluation                                              *)

\* DeviceFactory::get_registered_devices() of the modelled configuration
RegisteredDevices == {"tc0"}

MainFixed == UNCHANGED <<build, g_sim_mode, main_pc, exit_code, g_simulation_engine,
                         g_ticker_thread, g_ticker_running, wait_ready_handled,
                         stop_called, start_skipped, steady_clock>>

\* the ticker thread moves to pc; no clock is read
TickerAt(pc) ==
    /\ ticker_pc' = pc
    /\ UNCHANGED <<live_threads, ticked>>
    /\ UNCHANGED TickerLocals
    /\ MainFixed

CallersUnchanged == UNCHANGED <<device_reader, registry_mutex, stack, ret, clears,
                                lastReq, tpath>>

DeviceOnly == UNCHANGED <<physics_driven_signals, signal_cache>> /\ CallersUnchanged

\* the temperature the tempctl controller acts on: the registry's value if
\* tc1_temp is physics-driven and present, else the device state
ControlTemp(s, driven, cache) ==
    LET tc1_path == Path("tc0", "tc1_temp") IN
    IF tc1_path \in driven /\ cache[tc1_path].has THEN cache[tc1_path].v ELSE s.tc1_c

\* the controller run at the top of tempctl::read_signals
closed_loop(s, driven, cache) ==
    IF s.mode = "closed" THEN BangBang(s, ControlTemp(s, driven, cache)) ELSE s

\* tempctl::update_control: the bang-bang rules in closed mode, T from the
\* registry if physics-driven, else from device state
update_control(s, driven, cache) ==
    IF s.mode = "closed"
    THEN BangBang(s, IF Path("tc0", "tc1_temp") \in driven
                        /\ cache[Path("tc0", "tc1_temp")].has
                     THEN cache[Path("tc0", "tc1_temp")].v
                     ELSE s.tc1_c)
    ELSE s

ActuatorPaths ==
    {p \in AllPaths : p.d \in RegisteredDevices /\ IsActuatorPath(p)}

\* variant: physics-driven paths are collected like the others
collect_all_actuators(s, driven, cache, reader) ==
    LET paths == {p \in ActuatorPaths : reader # "null"}
        read == IF paths # {} THEN closed_loop(s, driven, cache) ELSE s
        value(p) == ValueToDouble(CHOOSE val \in DeviceValues(read, p) : TRUE).v
    IN  [signals |-> [p \in paths |-> value(p)], dev |-> read]

\* collect_actuator_signals: every actuator path that is not physics-driven
\* is read through the registry, which hands it to the device reader if one
\* is set; the reader runs the device's read_signals and converts the value
collect_actuator_signals(s, driven, cache, reader) ==
    LET paths == {p \in ActuatorPaths : p \notin driven /\ reader # "null"}
        read == IF paths # {} THEN closed_loop(s, driven, cache) ELSE s
        value(p) == ValueToDouble(CHOOSE val \in DeviceValues(read, p) : TRUE).v
    IN  [signals |-> [p \in paths |-> value(p)], dev |-> read]

\* g_function_name_to_id of a tempctl device; 0 stands for no entry
function_name_to_id(device_id, name) ==
    IF device_id \notin RegisteredDevices THEN 0
    ELSE CASE name = "set_mode" -> kFnSetMode
           [] name = "set_setpoint" -> kFnSetSetpoint
           [] name = "set_relay" -> kFnSetRelay
           [] OTHER -> 0

execute_engine_command(cmd, s, flt) ==
    LET id == function_name_to_id(cmd.device_id, cmd.function_name) IN
    IF id = 0 THEN [called |-> FALSE, code |-> "", dev |-> s]
    ELSE LET r == call_function(cmd.device_id, id, cmd.args, s, flt, FALSE)
         IN  [called |-> TRUE, code |-> r.code, dev |-> r.dev]

\* variant: the commands are skipped
tick_stage_skips_commands(r) ==
    IF r.success /\ r.sensors # <<>> THEN "write" ELSE "advance"

\* variant: the sensors are skipped
tick_stage_skips_sensors(r) ==
    IF r.success /\ r.commands # <<>> THEN "execute" ELSE "advance"

\* where ticker_thread_func is with what is left of the TickResult: in the
\* sensor loop, in the command loop, or past both
tick_stage(r) ==
    IF r.success /\ r.sensors # <<>> THEN "write"
    ELSE IF r.success /\ r.commands # <<>> THEN "execute"
    ELSE "advance"

\* variant: only an exception makes the tick fail
tick_goes_on_without_tick(outcome) ==
    IF outcome = "throw" THEN "failed" ELSE "read"

\* RemoteEngine::tick after update_signals: an exception is caught and
\* !success returns at once, both as TickResult{false, {}, {}}
remote_tick_after_update(outcome) ==
    IF outcome = "true" THEN "read" ELSE "failed"

\* ---- ticker_thread_func

TickControl ==
    /\ build = "core"
    /\ ticker_pc = "tick"
    /\ dev' = update_control(dev, physics_driven_signals, signal_cache)
    /\ TickerAt("collect")
    /\ DeviceOnly
    /\ UNCHANGED <<ioVars, restVars, rpcVars, tickVars>>

TickCollect ==
    /\ build = "core"
    /\ ticker_pc = "collect"
    /\ LET c == collect_actuator_signals(dev, physics_driven_signals, signal_cache,
                                        device_reader) IN
          /\ actuators' = c.signals
          /\ dev' = c.dev
    /\ IF ~g_simulation_engine
       THEN /\ ThreadExit
            /\ UNCHANGED ticked
            /\ UNCHANGED TickerLocals
            /\ MainFixed
       ELSE TickerAt("engine")
    /\ DeviceOnly
    /\ UNCHANGED <<tick_count, sensors, next_read, result, device_writes, tick_log, owed>>
    /\ UNCHANGED <<ioVars, restVars, rpcVars>>

\* RemoteEngine::tick calls the adapter's update_signals
TickEngineCall ==
    /\ build = "core"
    /\ ticker_pc = "engine"
    /\ UpdateSignalsCall
    /\ TickerAt("update")
    /\ UNCHANGED <<calls, regVars, ioVars, restVars, tickVars>>

\* an OK response hands its commands to the client
Received ==
    IF /\ Len(rpc'.statuses) > Len(rpc.statuses)
       /\ rpc'.statuses[Len(rpc'.statuses)] = "OK"
    THEN owed \o client'.pending_commands_
    ELSE owed

TickEngineRpc ==
    /\ build = "core"
    /\ ticker_pc = "update"
    /\ rpc.pc # "done"
    /\ \/ UpdateSignalsRpc
       \/ TryReregisterSession
    /\ owed' = Received
    /\ TickerAt("update")
    /\ UNCHANGED <<tick_count, actuators, sensors, next_read, result, device_writes,
                   tick_log>>
    /\ UNCHANGED <<calls, regVars, ioVars, restVars>>

TickEngineReturn ==
    /\ build = "core"
    /\ ticker_pc = "update"
    /\ rpc.pc = "done"
    /\ tick_log' = [NoTickLog EXCEPT
                       !.outcome = IF rpc.result = "true" THEN "ok" ELSE "failed",
                       !.threw = (rpc.result = "throw")]
    /\ IF remote_tick_after_update(rpc.result) = "read"
       THEN /\ sensors' = <<>>
            /\ next_read' = 1
            /\ TickerAt("read")
            /\ UNCHANGED result
       ELSE /\ result' = FailedTick
            /\ TickerAt(tick_stage(FailedTick))
            /\ UNCHANGED <<sensors, next_read>>
    /\ rpc' = NoCall
    /\ UNCHANGED <<client, calls>>
    /\ UNCHANGED <<tick_count, actuators, device_writes, owed>>
    /\ UNCHANGED <<regVars, ioVars, restVars>>

\* FluxGraphAdapter::read_signals: the next output path of a registered device
TickReadSignal ==
    /\ build = "core"
    /\ ticker_pc = "read"
    /\ next_read <= Len(OutputPaths)
    /\ IF OutputPaths[next_read].d \in RegisteredDevices
       THEN /\ ReadSignalCall(OutputPaths[next_read])
            /\ TickerAt("reading")
            /\ UNCHANGED next_read
       ELSE /\ next_read' = next_read + 1
            /\ TickerAt("read")
            /\ UNCHANGED <<client, rpc>>
    /\ UNCHANGED <<tick_count, actuators, sensors, result, device_writes, tick_log, owed>>
    /\ UNCHANGED <<calls, regVars, ioVars, restVars>>

TickReadRpc ==
    /\ build = "core"
    /\ ticker_pc = "reading"
    /\ rpc.pc # "done"
    /\ \/ ReadSignalRpc
       \/ TryReregisterSession
    /\ TickerAt("reading")
    /\ UNCHANGED <<calls, regVars, ioVars, restVars, tickVars>>

\* if (auto value = client_->read_signal_value(path)) sensors[path] = *value
TickReadReturn ==
    /\ build = "core"
    /\ ticker_pc = "reading"
    /\ rpc.pc = "done"
    /\ sensors' = IF rpc.result = "value"
                  THEN Append(sensors, [path |-> rpc.path, value |-> rpc.value.v])
                  ELSE sensors
    /\ next_read' = next_read + 1
    /\ TickerAt("read")
    /\ rpc' = NoCall
    /\ UNCHANGED <<client, calls>>
    /\ UNCHANGED <<tick_count, actuators, result, device_writes, tick_log, owed>>
    /\ UNCHANGED <<regVars, ioVars, restVars>>

\* adapter_->drain_commands() and return TickResult{true, sensors, commands}
TickDrain ==
    /\ build = "core"
    /\ ticker_pc = "read"
    /\ next_read > Len(OutputPaths)
    /\ result' = [success |-> TRUE, sensors |-> sensors,
                  commands |-> client.pending_commands_]
    /\ client' = drain_commands(client)
    /\ tick_log' = [tick_log EXCEPT !.sensors = sensors,
                                    !.commands = client.pending_commands_]
    /\ next_read' = 0
    /\ TickerAt(tick_stage(result'))
    /\ UNCHANGED <<tick_count, actuators, sensors, device_writes, owed>>
    /\ UNCHANGED <<rpc, calls, regVars, ioVars, restVars>>

\* SignalRegistry::write_signal(path, value)
WriteSignal(w) ==
    /\ physics_driven_signals' = physics_driven_signals \cup {w.path}
    /\ signal_cache' = [signal_cache EXCEPT ![w.path] = Some(w.value)]
    /\ CallersUnchanged

\* one iteration of: for (path, value) in result.sensors write_signal
TickWrite ==
    /\ build = "core"
    /\ ticker_pc = "write"
    /\ WriteSignal(Head(result.sensors))
    /\ result' = [result EXCEPT !.sensors = Tail(@)]
    /\ tick_log' = [tick_log EXCEPT !.writes = @ + 1]
    /\ TickerAt(tick_stage(result'))
    /\ UNCHANGED dev
    /\ UNCHANGED <<tick_count, actuators, sensors, next_read, device_writes, owed>>
    /\ UNCHANGED <<ioVars, restVars, rpcVars>>

\* the relay1 state a command sets when it succeeds
RelaySet(cmd, was) ==
    IF cmd.function_name = "set_relay" /\ cmd.args.relay_index = Some(1)
    THEN Some(IF cmd.args.state = "on" THEN 1 ELSE 0)
    ELSE was

\* one iteration of: for cmd in result.commands execute_engine_command(cmd)
TickExecute ==
    /\ build = "core"
    /\ ticker_pc = "execute"
    /\ LET cmd == Head(result.commands)
           r == execute_engine_command(cmd, dev, faults)
       IN  /\ dev' = r.dev
           /\ tick_log' = [tick_log EXCEPT
                  !.execs = @ + 1,
                  !.relay1 = IF r.called /\ r.code = "OK" THEN RelaySet(cmd, @) ELSE @]
           /\ owed' = IF owed # <<>> /\ Head(owed) = cmd THEN Tail(owed) ELSE owed
    /\ result' = [result EXCEPT !.commands = Tail(@)]
    /\ TickerAt(tick_stage(result'))
    /\ DeviceOnly
    /\ UNCHANGED <<tick_count, actuators, sensors, next_read, device_writes>>
    /\ UNCHANGED <<ioVars, restVars, rpcVars>>

\* tick_count++; next_tick += tick_duration; now = steady_clock::now()
TickAdvance ==
    /\ build = "core"
    /\ ticker_pc = "advance"
    /\ tick_count' = tick_count + 1
    /\ next_tick' = NextTickAdvanced(next_tick, steady_clock)
    /\ now' = steady_clock
    /\ ticked' = TRUE
    /\ ticker_pc' = "catchup"
    /\ UNCHANGED <<thread_start, tick_start, wake_at, live_threads>>
    /\ MainFixed
    /\ UNCHANGED <<actuators, sensors, next_read, result, device_writes, tick_log, owed>>
    /\ UNCHANGED <<regVars, ioVars, restVars, rpcVars>>

\* ---- SimPhysics::ticker_thread

\* the device writes one graph evaluation can queue
DeviceWriteLists ==
    {<<>>} \cup {<<[path |-> OutputPaths[1], value |-> v]>> : v \in PhysValues}
           \cup {<<[path |-> OutputPaths[1], value |-> v],
                   [path |-> OutputPaths[2], value |-> v]>> : v \in PhysValues}

\* graph evaluation and model update under physics_mutex_
LocalEvaluate ==
    /\ build = "legacy"
    /\ ticker_pc = "tick"
    /\ IF g_sim_mode = "sim"
       THEN /\ \E writes \in DeviceWriteLists :
                  /\ device_writes' = writes
                  /\ tick_log' = [NoTickLog EXCEPT !.outcome = "ok", !.sensors = writes]
            /\ TickerAt("commit")
       ELSE /\ TickerAt("elapsed")
            /\ UNCHANGED <<device_writes, tick_log>>
    /\ UNCHANGED <<tick_count, actuators, sensors, next_read, result, owed>>
    /\ UNCHANGED <<regVars, ioVars, restVars, rpcVars>>

\* for (path, value) in device_writes: signal_source_->write_signal
LocalWrite ==
    /\ build = "legacy"
    /\ ticker_pc = "commit"
    /\ IF device_writes # <<>>
       THEN /\ WriteSignal(Head(device_writes))
            /\ device_writes' = Tail(device_writes)
            /\ tick_log' = [tick_log EXCEPT !.writes = @ + 1]
            /\ TickerAt("commit")
       ELSE /\ TickerAt("rules")
            /\ UNCHANGED <<physics_driven_signals, signal_cache, device_writes, tick_log>>
            /\ CallersUnchanged
    /\ UNCHANGED dev
    /\ UNCHANGED <<tick_count, actuators, sensors, next_read, result, owed>>
    /\ UNCHANGED <<ioVars, restVars, rpcVars>>

\* if (rule_evaluation_callback_) rule_evaluation_callback_()
LocalRules ==
    /\ build = "legacy"
    /\ ticker_pc = "rules"
    /\ TickerAt("elapsed")
    /\ UNCHANGED <<regVars, ioVars, restVars, rpcVars, tickVars>>

\* elapsed = now - tick_start; sleep_for(tick_duration - elapsed) if time is left
LocalElapsed ==
    /\ build = "legacy"
    /\ ticker_pc = "elapsed"
    /\ ticked' = TRUE
    /\ LET elapsed == steady_clock - tick_start IN
       IF elapsed < Period
       THEN wake_at' = steady_clock + (Period - elapsed) /\ ticker_pc' = "sleep"
       ELSE ticker_pc' = "check" /\ UNCHANGED wake_at
    /\ UNCHANGED <<thread_start, next_tick, now, tick_start, live_threads>>
    /\ MainFixed
    /\ UNCHANGED <<regVars, ioVars, restVars, rpcVars, tickVars>>

\* the clock moves while the ticker waits: for the engine's answer, for the
\* rule evaluation, or in its sleep
TimePasses ==
    /\ ticker_pc \in {"update", "rules", "sleep"}
    /\ Advance

\* ---- both tickers, physics started, main in its loop

InitTick ==
    /\ build \in Builds
    /\ g_sim_mode = "sim"
    /\ main_pc = "loop"
    /\ exit_code = 0
    /\ g_simulation_engine = TRUE
    /\ g_ticker_running = TRUE
    /\ g_ticker_thread = "joinable"
    /\ live_threads = 1
    /\ ticker_pc = "spawned"
    /\ thread_start = 0 /\ next_tick = 0 /\ now = 0 /\ tick_start = 0 /\ wake_at = 0
    /\ steady_clock = 0
    /\ wait_ready_handled = TRUE
    /\ stop_called = FALSE
    /\ ticked = FALSE
    /\ start_skipped = FALSE
    /\ physics_driven_signals = OutputPathSet
    /\ signal_cache = [p \in AllPaths |-> None]
    /\ device_reader = "lambda"
    /\ registry_mutex = NoThread
    /\ stack = [t \in Threads |-> <<>>]
    /\ ret = [t \in Threads |-> None]
    /\ clears = 0
    /\ dev \in {InitDev, [InitDev EXCEPT !.mode = "closed"]}
    /\ lastReq = NoReq
    /\ tpath = NoPath
    /\ IoQuiet
    /\ TickQuiet
    /\ RestQuiet
    /\ client = RegisteredClient
    /\ rpc = NoCall
    /\ calls = 0

NextTick ==
    \/ EngineTickerEnter
    \/ EngineTickerCheck
    \/ TickControl
    \/ TickCollect
    \/ TickEngineCall
    \/ TickEngineRpc
    \/ TickEngineReturn
    \/ TickReadSignal
    \/ TickReadRpc
    \/ TickReadReturn
    \/ TickDrain
    \/ TickWrite
    \/ TickExecute
    \/ TickAdvance
    \/ EngineCatchUp
    \/ EngineWake
    \/ LocalTickerCheck
    \/ LocalEvaluate
    \/ LocalWrite
    \/ LocalRules
    \/ LocalElapsed
    \/ LocalWake
    \/ TimePasses

SpecTick == InitTick /\ [][NextTick]_vars

-----------------------------------------------------------------------------
(* Fault injection: the tables of fault_injection.cpp with their expiry    *)
(* instants on steady_clock, the control device's functions that fill      *)
(* them, and describe_device / read_signals evaluated against them         *)

\* entries signal_faults holds for one device
MaxInjections == 2

\* clock values the requests of a run are handled at
MaxFaultTime == 3

kChaosDeviceId == "chaos_control"

\* duration_ms arguments: none at all, and two clock units
FaultDurations == {0, 2}

\* std::map operator[] assignment: the entry of key k is v afterwards
MapPut(f, k, v) == [x \in DOMAIN f \cup {k} |-> IF x = k THEN v ELSE f[x]]

\* fault_injection::clear_all_faults
clear_all_faults(fs) == NoFaultState

\* fault_injection::inject_device_unavailable at clock value clk
inject_device_unavailable(fs, device_id, duration_ms, clk) ==
    [fs EXCEPT !.device_unavailable_faults =
        MapPut(@, device_id, Some(clk + duration_ms))]

\* variant: the fault still holds at its expiry instant
is_device_unavailable_at_expiry(fs, device_id, clk) ==
    IF device_id \notin DOMAIN fs.device_unavailable_faults THEN FALSE
    ELSE LET it == fs.device_unavailable_faults[device_id] IN
    IF ~it.has THEN FALSE
    ELSE IF clk > it.v THEN FALSE
    ELSE TRUE

\* fault_injection::is_device_unavailable: what it returns at clock value clk
is_device_unavailable(fs, device_id, clk) ==
    IF device_id \notin DOMAIN fs.device_unavailable_faults THEN FALSE
    ELSE LET it == fs.device_unavailable_faults[device_id] IN
    IF ~it.has THEN FALSE
    ELSE IF clk >= it.v THEN FALSE
    ELSE TRUE

\* fault_injection::is_device_unavailable: the table it leaves (an expired
\* entry is erased)
device_faults_checked(fs, device_id, clk) ==
    IF device_id \notin DOMAIN fs.device_unavailable_faults THEN fs ELSE
    LET it == fs.device_unavailable_faults[device_id] IN
    IF it.has /\ clk >= it.v
    THEN [fs EXCEPT !.device_unavailable_faults[device_id] = None]
    ELSE fs

\* fault_injection::inject_signal_fault at clock value clk
inject_signal_fault(fs, device_id, signal_id, duration_ms, clk) ==
    [fs EXCEPT !.signal_faults[device_id] =
        Append(@, [signal_id |-> signal_id, expires_at |-> clk + duration_ms])]

\* std::remove_if over a vector of SignalFault
RECURSIVE remove_expired(_, _)
remove_expired(fv, clk) ==
    IF fv = <<>> THEN <<>>
    ELSE IF clk >= Head(fv).expires_at THEN remove_expired(Tail(fv), clk)
    ELSE <<Head(fv)>> \o remove_expired(Tail(fv), clk)

\* fault_injection::is_signal_faulted: what it returns at clock value clk
is_signal_faulted(fs, device_id, signal_id, clk) ==
    LET fv == remove_expired(fs.signal_faults[device_id], clk) IN
    \E i \in 1..Len(fv) : fv[i].signal_id = signal_id

\* fault_injection::is_signal_faulted: the table it leaves
signal_faults_checked(fs, device_id, clk) ==
    [fs EXCEPT !.signal_faults[device_id] = remove_expired(@, clk)]

\* the faults in force at clock value clk, as the handlers take them
ActiveFaults(fs, clk) ==
    [unavailable |-> {d \in FaultTargets : is_device_unavailable(fs, d, clk)},
     call_failure |-> {}]

\* sim_devices::describe_device: the capability set returned
describe_device(device_id, flt) ==
    IF device_id \in flt.unavailable THEN "empty"
    ELSE IF device_id = kChaosDeviceId THEN "chaos_control"
    ELSE IF device_id \notin Devices THEN "empty"
    ELSE DeviceType(device_id)

\* tempctl::read_signals: the value of one signal, a temperature from the
\* registry if physics drives it
tempctl_signal_value(s, p, driven, cache) ==
    IF p.s \in {"tc1_temp", "tc2_temp"} /\ p \in driven /\ cache[p].has
    THEN make_double(cache[p].v)
    ELSE CHOOSE val \in DeviceValues(s, p) : TRUE

\* sim_devices::read_signals of a tempctl device with the fault overlay:
\* signal id -> [value, quality], and the device state after the read
read_signal_values(device_id, signal_ids, s, fs, clk, driven, cache) ==
    IF is_device_unavailable(fs, device_id, clk) \/ device_id \notin Devices
    THEN [values |-> <<>>, dev |-> s]
    ELSE LET after == closed_loop(s, driven, cache)
             ids == IF signal_ids = {}
                    THEN {"tc1_temp", "tc2_temp", "relay1_state", "relay2_state"}
                    ELSE signal_ids \cap TempctlSignals
         IN  [values |-> [id \in ids |->
                            [value |-> tempctl_signal_value(after, Path(device_id, id),
                                                            driven, cache),
                             quality |-> IF is_signal_faulted(fs, device_id, id, clk)
                                         THEN "FAULT" ELSE "OK"]],
              dev |-> after]

\* ---- what the injections made so far call for at clock value clk

DeviceFaultInForce(inj, d, clk) ==
    inj.unavailable[d].has /\ clk < inj.unavailable[d].v

SignalFaultInForce(inj, d, s, clk) ==
    \E f \in inj.signal : f.device_id = d /\ f.signal_id = s /\ clk < f.expires_at

\* the injections, the signal faults with their expiry instant after clk
StillAhead(inj, clk) ==
    [unavailable |-> inj.unavailable,
     signal |-> {f \in inj.signal : clk < f.expires_at},
     first_read |-> [s \in FaultSignals |->
                        IF SignalFaultInForce(inj, "tc0", s, clk) THEN inj.first_read[s]
                        ELSE None]]

\* ---- the requests, each handled in one step at the current clock value

Reply(kind, device_id, code, capabilities, asked, values) ==
    [kind |-> kind, device_id |-> device_id, code |-> code,
     at |-> steady_clock, capabilities |-> capabilities, asked |-> asked,
     values |-> values]

\* everything a request handled in this section leaves alone
FaultFrame ==
    /\ UNCHANGED <<runVars, ioVars, rpcVars, tickVars, physVars, accessVars,
                   transformVars>>
    /\ CallersUnchanged

\* call(chaos_control, inject_device_unavailable, device_id, duration_ms)
InjectDeviceUnavailable(d, duration_ms) ==
    /\ fault_state' =
          [tables |-> inject_device_unavailable(fault_state.tables, d, duration_ms,
                                                steady_clock),
           injected |-> [fault_state.injected EXCEPT
                            !.unavailable[d] = Some(steady_clock + duration_ms)]]
    /\ reply' = Reply("call", kChaosDeviceId, "OK", "", {}, <<>>)
    /\ UNCHANGED <<dev, physics_driven_signals, signal_cache>>
    /\ FaultFrame

\* call(chaos_control, inject_signal_fault, device_id, signal_id, duration_ms)
InjectSignalFault(d, s, duration_ms) ==
    /\ Len(fault_state.tables.signal_faults[d]) < MaxInjections
    /\ fault_state' =
          [tables |-> inject_signal_fault(fault_state.tables, d, s, duration_ms,
                                          steady_clock),
           injected |-> [fault_state.injected EXCEPT
                            !.signal = @ \cup
                                {[device_id |-> d, signal_id |-> s,
                                  expires_at |-> steady_clock + t] : t \in {duration_ms} \ {0}},
                            !.first_read[s] =
                                IF SignalFaultInForce(fault_state.injected, d, s,
                                                      steady_clock)
                                THEN @ ELSE None]]
    /\ reply' = Reply("call", kChaosDeviceId, "OK", "", {}, <<>>)
    /\ UNCHANGED <<dev, physics_driven_signals, signal_cache>>
    /\ FaultFrame

\* call(chaos_control, clear_faults)
ClearFaults ==
    /\ fault_state.tables # NoFaultState
    /\ fault_state' = [tables |-> clear_all_faults(fault_state.tables),
                       injected |-> NoInjections]
    /\ reply' = Reply("call", kChaosDeviceId, "OK", "", {}, <<>>)
    /\ UNCHANGED <<dev, physics_driven_signals, signal_cache>>
    /\ FaultFrame

\* handle_describe_device: list_devices checks every registered device,
\* describe_device the one asked for
DescribeDevice(d) ==
    /\ LET flt == ActiveFaults(fault_state.tables, steady_clock)
           resp == handle_describe_device(Req(0, "describe_device", d, 0, NoArgs),
                                          dev, flt)
       IN  /\ reply' = Reply("describe_device", d, resp.code,
                             IF resp.code = "OK" THEN describe_device(d, flt) ELSE "",
                             {}, <<>>)
           /\ fault_state' =
                 [fault_state EXCEPT !.tables =
                     IF d = "" THEN @ ELSE device_faults_checked(@, "tc0", steady_clock)]
    /\ UNCHANGED <<dev, physics_driven_signals, signal_cache>>
    /\ FaultFrame

\* handle_read_signals on the tempctl device
ReadSignals(d, signal_ids) ==
    /\ LET fs == fault_state.tables
           inj == fault_state.injected
           r == read_signal_values(d, signal_ids, dev, fs, steady_clock,
                                   physics_driven_signals, signal_cache)
           code == IF d = "" THEN "INVALID_ARGUMENT"
                   ELSE IF d \notin Devices THEN "NOT_FOUND"
                   ELSE IF signal_ids # {} /\ DOMAIN r.values = {} THEN "NOT_FOUND"
                   ELSE "OK"
       IN  /\ reply' = Reply("read_signals", d, code, "", signal_ids,
                             IF code = "OK" THEN r.values ELSE <<>>)
           /\ dev' = IF d \in Devices THEN r.dev ELSE dev
           /\ fault_state' =
                 [tables |-> IF d \notin Devices THEN fs
                             ELSE IF DOMAIN r.values = {}
                             THEN device_faults_checked(fs, d, steady_clock)
                             ELSE signal_faults_checked(
                                      device_faults_checked(fs, d, steady_clock),
                                      d, steady_clock),
                  injected |-> [inj EXCEPT !.first_read =
                      [s \in FaultSignals |->
                          IF ~SignalFaultInForce(inj, d, s, steady_clock) THEN None
                          ELSE IF @[s].has \/ s \notin DOMAIN r.values THEN @[s]
                          ELSE r.values[s].value]]]
    /\ UNCHANGED <<physics_driven_signals, signal_cache>>
    /\ FaultFrame

\* call(tc0, set_relay, 1, state): the device's own value changes
CallSetRelay(state) ==
    /\ LET resp == call_function("tc0", kFnSetRelay,
                                 [NoArgs EXCEPT !.relay_index = Some(1), !.state = state],
                                 dev, ActiveFaults(fault_state.tables, steady_clock),
                                 FALSE)
       IN  /\ dev' = resp.dev
           /\ reply' = Reply("call", "tc0", resp.code, "", {}, <<>>)
           /\ fault_state' = [fault_state EXCEPT !.tables =
                                 device_faults_checked(@, "tc0", steady_clock)]
    /\ UNCHANGED <<physics_driven_signals, signal_cache>>
    /\ FaultFrame

\* the ticker publishes a temperature: write_signal(tc0/tc1_temp, v)
PhysicsWrites(v) ==
    /\ WriteSignal([path |-> Path("tc0", "tc1_temp"), value |-> v])
    /\ UNCHANGED <<dev, faultVars>>
    /\ UNCHANGED <<runVars, ioVars, rpcVars, tickVars, physVars, accessVars,
                   transformVars>>

FaultClock ==
    /\ steady_clock < MaxFaultTime
    /\ steady_clock' = steady_clock + 1
    /\ UNCHANGED <<build, g_sim_mode, main_pc, exit_code, g_simulation_engine,
                   g_ticker_thread, g_ticker_running, wait_ready_handled,
                   stop_called, start_skipped, live_threads, ticker_pc, ticked>>
    /\ UNCHANGED TickerLocals
    /\ reply' = NoReply
    /\ fault_state' = [fault_state EXCEPT !.injected = StillAhead(@, steady_clock')]
    /\ UNCHANGED <<regVars, ioVars, rpcVars, tickVars, physVars, accessVars,
                   transformVars>>

\* physics started and the request loop running
InitFaults ==
    /\ build = "core"
    /\ g_sim_mode = "sim"
    /\ main_pc = "loop"
    /\ exit_code = 0
    /\ g_simulation_engine = TRUE
    /\ g_ticker_running = TRUE
    /\ g_ticker_thread = "joinable"
    /\ live_threads = 1
    /\ ticker_pc = "sleep"
    /\ thread_start = 0 /\ next_tick = 0 /\ now = 0 /\ tick_start = 0 /\ wake_at = 0
    /\ steady_clock = 0
    /\ wait_ready_handled = TRUE
    /\ stop_called = FALSE
    /\ ticked = FALSE
    /\ start_skipped = FALSE
    /\ physics_driven_signals = {}
    /\ signal_cache = [p \in AllPaths |-> None]
    /\ device_reader = "lambda"
    /\ registry_mutex = NoThread
    /\ stack = [t \in Threads |-> <<>>]
    /\ ret = [t \in Threads |-> None]
    /\ clears = 0
    /\ dev = InitDev
    /\ lastReq = NoReq
    /\ tpath = NoPath
    /\ IoQuiet
    /\ RpcQuiet
    /\ TickQuiet
    /\ FaultQuiet
    /\ PhysQuiet
    /\ AccessQuiet
    /\ TransformQuiet

ReadSets == {{"tc1_temp", "relay1_state"}, {"nosuch"}}

NextFaults ==
    \/ \E d \in FaultTargets, t \in FaultDurations : InjectDeviceUnavailable(d, t)
    \/ \E s \in FaultSignals, t \in FaultDurations : InjectSignalFault("tc0", s, t)
    \/ ClearFaults
    \/ \E d \in {"tc0", "nope", kChaosDeviceId} : DescribeDevice(d)
    \/ \E d \in {"tc0", "nope"}, ids \in ReadSets : ReadSignals(d, ids)
    \/ \E state \in {"on", "off"} : CallSetRelay(state)
    \/ \E v \in PhysValues : PhysicsWrites(v)
    \/ FaultClock

SpecFaults == InitFaults /\ [][NextFaults]_vars

-----------------------------------------------------------------------------
(* SimPhysics::ticker_thread step by step: the signal graph and the thermal *)
(* model under physics_mutex_, the device writes, the rule engine's hook;  *)
(* and the legacy device manager's call_function with its step_world       *)

\* devices registered in the physics runs: a tempctl and a relayio
PhysicsDevices == {"tc0", "rl0"}

ModelPaths == {Path("model", "temperature")}

\* ---- configuration: one thermal_mass model, two graph edges

\* a linear transform, or none (scale 1, offset 0)
Edge(source, target, scale) == [source |-> source, target |-> target, scale |-> scale]

HeaterGain == 60

\* signal_graph: the tempctl relay heats the model, the model's temperature
\* is the tempctl's first sensor, the first sensor feeds the second, and an
\* edge from a signal the tempctl does not have
signal_graph ==
    << Edge(Path("tc0", "relay1_state"), Path("model", "heating_power"), HeaterGain),
       Edge(Path("model", "temperature"), Path("tc0", "tc1_temp"), 1),
       Edge(Path("tc0", "tc1_temp"), Path("tc0", "tc2_temp"), 1),
       Edge(Path("tc0", "no_such_signal"), Path("model", "heating_power"), 1) >>

\* thermal_mass, heat_transfer_coeff, the default ambient and dt of the runs
thermal_mass_ == 1
heat_transfer_coeff_ == 1
DefaultAmbient == 25
dt == 1

\* apply_transform, Linear: input * scale + offset
apply_transform(edge, input_value) == input_value * edge.scale

\* ThermalMassModel::update: the temperature after one Euler step
ThermalMassUpdate(temperature, inputs) ==
    LET heating_power == IF inputs.has THEN inputs.v ELSE 0
        q_ambient == heat_transfer_coeff_ * (temperature - DefaultAmbient)
        dT_dt == (heating_power - q_ambient) \div thermal_mass_
    IN  temperature + dT_dt * dt

\* ---- reads through the registry, run to completion

\* the registry's device reader: legacy read_signals(device_id, {signal_id})
\* and the conversion to optional<double>
device_reader_value(p, s, flt, driven, cache) ==
    IF p.d \in flt.unavailable THEN [value |-> None, dev |-> s]
    ELSE IF p.d \notin PhysicsDevices \/ p \notin AllPaths THEN [value |-> None, dev |-> s]
    ELSE IF DeviceType(p.d) = "tempctl"
    THEN LET after == closed_loop(s, driven, cache) IN
         [value |-> ValueToDouble(tempctl_signal_value(after, p, driven, cache)),
          dev |-> after]
    ELSE [value |-> ValueToDouble(CHOOSE val \in DeviceValues(s, p) : TRUE), dev |-> s]

\* SignalRegistry::read_signal
registry_read_signal(p, s, flt, driven, cache, reader) ==
    IF p \in driven THEN [value |-> cache[p], dev |-> s]
    ELSE IF reader = "null" THEN [value |-> None, dev |-> s]
    ELSE device_reader_value(p, s, flt, driven, cache)

\* variant: the pending writes are not consulted
SourceUnlessModel(p, writes) == p \notin ModelPaths

\* variant: the output store starts at the model's initial temperature
output_storage_from_model(initial_temp) == initial_temp

\* SimPhysics::SimPhysics: model_outputs_[id][output] as constructed
output_storage(initial_temp) == 0

\* SimPhysics::read_signal_value needs the signal source for this path: it
\* is no model output and no pending write
NeedsSignalSource(p, writes) ==
    /\ p \notin ModelPaths
    /\ \A i \in 1..Len(writes) : writes[i].path # p

\* ---- the legacy device manager's call_function

StepAmbient == 23
OneRelayRise == 45
TwoRelayRise == 75
SensorOffset == 2

\* a first-order response alpha * (target - x) with 0 < alpha < 1, in whole
\* degrees: one degree toward the target
Approach(x, target) ==
    IF x < target THEN x + 1 ELSE IF x > target THEN x - 1 ELSE x

\* tempctl::update_physics (the 1.5 degree offset of tc2 in whole degrees)
tempctl_update_physics(s) ==
    LET relays_on == (IF s.relay1 THEN 1 ELSE 0) + (IF s.relay2 THEN 1 ELSE 0)
        target == IF s.mode = "closed" THEN s.setpoint_c
                  ELSE StepAmbient + (IF relays_on = 0 THEN 0
                                      ELSE IF relays_on = 1 THEN OneRelayRise
                                      ELSE TwoRelayRise)
    IN  [s EXCEPT !.tc1_c = Approach(@, target),
                  !.tc2_c = Approach(@, target - SensorOffset)]

\* relayio::update_physics
relayio_update_physics(s) == [s EXCEPT !.gpio_input_1 = s.relay_ch1]

\* step_world at clock value clk: nothing when no time has passed
step_world(s, last_update, clk) ==
    IF clk - last_update <= 0 THEN [dev |-> s, last_update |-> last_update]
    ELSE [dev |-> relayio_update_physics(tempctl_update_physics(s)),
          last_update |-> clk]

kFnSetRelayCh1 == 1

\* relayio::call_function
RelayioCallFunction(s, function_id, args) ==
    IF function_id = kFnSetRelayCh1
    THEN IF args.enabled.type # "bool" THEN bad(s)
         ELSE ok([s EXCEPT !.relay_ch1 = (args.enabled.v = 1)])
    ELSE nf(s)

\* variant: no stepping in call_function
call_without_step(s, last_update, clk) == [dev |-> s, last_update |-> last_update]

\* sim_devices::call_function of the legacy device manager: step_world
\* first, then the fault checks and the dispatch on the device type
legacy_call_function(device_id, function_id, args, s, flt, last_update, clk) ==
    LET w == step_world(s, last_update, clk)
        r == IF device_id \in flt.unavailable THEN bad(w.dev)
             ELSE IF device_id \notin PhysicsDevices THEN nf(w.dev)
             ELSE IF DeviceType(device_id) = "tempctl"
                  THEN TempctlCallFunction(w.dev, function_id, args)
                  ELSE RelayioCallFunction(w.dev, function_id, args)
    IN  [code |-> r.code, dev |-> r.dev, last_update |-> w.last_update]

\* ---- the rule engine

Condition(matches, path, threshold) ==
    [matches |-> matches, path |-> path, comparator |-> ">", threshold |-> threshold]

\* a rule action with one argument: its key and its YAML scalar
ArgAction(device_id, function_name, key, scalar) ==
    [device_id |-> device_id, function_name |-> function_name, key |-> key,
     scalar |-> scalar]

Action(device_id, function_name, enabled) ==
    ArgAction(device_id, function_name, "enabled", enabled)

Rule(id, condition, actions) == [id |-> id, condition |-> condition, actions |-> actions]

RuleThreshold == 80

\* "model/temperature > 80" -> set_relay_ch1(enabled=true) on rl0
ModelRule ==
    Rule("model", Condition(TRUE, Path("model", "temperature"), RuleThreshold),
         <<Action("rl0", "set_relay_ch1", "true")>>)

\* "tc0/tc1_temp > 80" -> set_relay_ch1(enabled=true) on rl0
SensorRule ==
    Rule("sensor", Condition(TRUE, Path("tc0", "tc1_temp"), RuleThreshold),
         <<Action("rl0", "set_relay_ch1", "true")>>)

\* a condition outside the grammar
GrammarRule ==
    Rule("grammar", Condition(FALSE, NoPath, 0), <<Action("rl0", "set_relay_ch1", "true")>>)

\* "tc0/setpoint > 50" with a function the device does not have
UnknownFunctionRule ==
    Rule("unknown_function", Condition(TRUE, Path("tc0", "setpoint"), 50),
         <<Action("rl0", "no_such_function", "true")>>)

\* "tc0/setpoint > 50" with an argument no conversion accepts
ConversionRule ==
    Rule("conversion", Condition(TRUE, Path("tc0", "setpoint"), 50),
         <<Action("rl0", "set_relay_ch1", "abc")>>)

\* "tc0/tc1_temp > -1": relay_ch1 on, a function rl0 does not have, relay_ch1 off
MissingFunctionRule ==
    Rule("missing_function", Condition(TRUE, Path("tc0", "tc1_temp"), 0 - 1),
         <<Action("rl0", "set_relay_ch1", "true"),
           Action("rl0", "no_such_function", "true"),
           Action("rl0", "set_relay_ch1", "false")>>)

\* "tc0/tc1_temp > -1": relay_ch1 on, set_setpoint(value=70.0) on tc0,
\* relay_ch1 off
TwoDeviceRule ==
    Rule("two_devices", Condition(TRUE, Path("tc0", "tc1_temp"), 0 - 1),
         <<Action("rl0", "set_relay_ch1", "true"),
           ArgAction("tc0", "set_setpoint", "value", "70.0"),
           Action("rl0", "set_relay_ch1", "false")>>)

\* physics_config_.rules of the runs
RuleConfigs ==
    { <<>>, <<ModelRule>>, <<GrammarRule, SensorRule>>,
      <<UnknownFunctionRule, ConversionRule, SensorRule>>,
      <<MissingFunctionRule, SensorRule>>, <<TwoDeviceRule, SensorRule>> }

\* the fault tables of a run started after inject_device_unavailable(tc0)
\* with a duration longer than the run
FaultedTables ==
    [NoFaultState EXCEPT !.device_unavailable_faults["tc0"] = Some(1000)]

\* the runs: every rule configuration without faults, and the two-device
\* rule with tc0 unavailable
PhysicsRuns ==
    {[rules |-> r, tables |-> NoFaultState] : r \in RuleConfigs}
        \cup {[rules |-> <<TwoDeviceRule, SensorRule>>, tables |-> FaultedTables]}

Thrown == [type |-> "throw", v |-> 0, has |-> FALSE]

\* execute_action: a YAML scalar to a protobuf Value by its shape: bool
\* literals, then int64 (no '.', 'e', 'E'), then double; a scalar that is
\* none of these throws out of the conversion
yaml_to_value(scalar) ==
    CASE scalar \in {"true", "True", "TRUE"} -> make_bool(TRUE)
      [] scalar \in {"false", "False", "FALSE"} -> make_bool(FALSE)
      [] scalar = "1" -> [has |-> TRUE, v |-> 1, type |-> "int64"]
      [] scalar = "70.0" -> make_double(70)
      [] OTHER -> Thrown

\* execute_action: the function id looked up by name in describe_device
capability_function_id(device_id, function_name, flt) ==
    IF device_id \in flt.unavailable THEN 0
    ELSE IF device_id = "rl0" /\ function_name = "set_relay_ch1" THEN kFnSetRelayCh1
    ELSE IF device_id = "tc0"
         THEN CASE function_name = "set_mode" -> kFnSetMode
                [] function_name = "set_setpoint" -> kFnSetSetpoint
                [] function_name = "set_relay" -> kFnSetRelay
                [] OTHER -> 0
    ELSE 0

RuleResult(outcome, s, last_update) ==
    [outcome |-> outcome, dev |-> s, last_update |-> last_update]

\* RuleEngine::execute_action
execute_action(action, s, flt, last_update, clk) ==
    LET val == yaml_to_value(action.scalar)
        function_id == capability_function_id(action.device_id, action.function_name,
                                              flt)
        args == IF action.device_id = "tc0"
                THEN [NoArgs EXCEPT !.value = IF action.key = "value" /\ val.type = "double"
                                              THEN Some(val.v) ELSE None]
                ELSE [enabled |-> IF action.key = "enabled" THEN val ELSE None]
    IN  IF val.type = "throw" THEN RuleResult("exception", s, last_update)
        ELSE IF function_id = 0 THEN RuleResult("exception", s, last_update)
        ELSE LET r == legacy_call_function(action.device_id, function_id,
                                           args, s, flt, last_update, clk)
             IN  RuleResult("executed", r.dev, r.last_update)

\* variant: the remaining actions run after an exception
goes_on_after(outcome) == FALSE

\* evaluate_rules: an exception thrown by execute_action leaves the loop
\* over the rule's actions
leaves_actions(outcome) == outcome = "exception"

\* the actions of a rule in order; an exception ends them
RECURSIVE execute_actions(_, _, _, _, _)
execute_actions(actions, s, flt, last_update, clk) ==
    IF actions = <<>> THEN RuleResult("executed", s, last_update)
    ELSE LET r == execute_action(Head(actions), s, flt, last_update, clk) IN
         IF leaves_actions(r.outcome) THEN r
         ELSE execute_actions(Tail(actions), r.dev, flt, r.last_update, clk)

\* RuleEngine::evaluate_condition: regex_match, the registry read, the
\* comparison; a missing value makes the condition false
evaluate_condition(condition, s, flt, driven, cache, reader) ==
    IF ~condition.matches THEN [outcome |-> "exception", met |-> FALSE, dev |-> s]
    ELSE LET rd == registry_read_signal(condition.path, s, flt, driven, cache, reader) IN
         [outcome |-> "ok", dev |-> rd.dev,
          met |-> rd.value.has /\ rd.value.v > condition.threshold]

\* the body of the try block of evaluate_rules for one rule
evaluate_rule(rule, s, flt, driven, cache, reader, last_update, clk) ==
    LET c == evaluate_condition(rule.condition, s, flt, driven, cache, reader) IN
    IF c.outcome = "exception" THEN RuleResult("exception", s, last_update)
    ELSE IF ~c.met THEN RuleResult("quiet", c.dev, last_update)
    ELSE execute_actions(rule.actions, c.dev, flt, last_update, clk)

\* variant: an exception ends the evaluation of the tick
rule_after_exception_none(i, outcome, n) ==
    IF outcome = "exception" THEN n + 1 ELSE i + 1

\* evaluate_rules: the catch block logs and the loop goes on to the next rule
rule_after(i, outcome, n) == i + 1

\* variant: the lock is still held while the device writes are made
physics_mutex_through_writes(stage) ==
    IF stage \in {"edges", "edge_read", "commit"} THEN "ticker" ELSE NoThread

\* the scope of the lock_guard in ticker_thread: graph evaluation and model
\* update; it ends before the device writes
physics_mutex_at(stage) ==
    IF stage \in {"edges", "edge_read"} THEN "ticker" ELSE NoThread

\* ---- the ticker's steps

PhysFrame ==
    /\ UNCHANGED <<ioVars, rpcVars, faultVars, accessVars, transformVars>>
    /\ UNCHANGED <<tick_count, actuators, sensors, next_read, result, owed>>

\* lock_guard lock(physics_mutex_): the graph evaluation begins
PhysLock ==
    /\ build = "legacy" /\ g_sim_mode = "sim"
    /\ ticker_pc = "tick"
    /\ physics.physics_mutex_ = NoThread
    /\ physics' = [physics EXCEPT !.physics_mutex_ = physics_mutex_at("edges"),
                                  !.model_inputs = None, !.edge = 1]
    /\ device_writes' = <<>>
    /\ TickerAt("edges")
    /\ UNCHANGED <<regVars, rule_engine, tick_log>>
    /\ PhysFrame

\* an edge is routed: to the model's inputs or to the device writes
Routed(edge, value) ==
    /\ physics' = [physics EXCEPT !.edge = @ + 1,
                      !.model_inputs = IF edge.target.d = "model" /\ value.has
                                       THEN Some(apply_transform(edge, value.v))
                                       ELSE @]
    /\ device_writes' = IF edge.target.d # "model" /\ value.has
                        THEN Append(device_writes,
                                    [path |-> edge.target,
                                     value |-> apply_transform(edge, value.v)])
                        ELSE device_writes

\* an edge whose source is a model output or a pending write
PhysEdge ==
    /\ build = "legacy"
    /\ ticker_pc = "edges"
    /\ physics.edge <= Len(signal_graph)
    /\ LET edge == signal_graph[physics.edge] IN
       /\ ~NeedsSignalSource(edge.source, device_writes)
       /\ Routed(edge, IF edge.source \in ModelPaths THEN Some(physics.model_outputs_)
                       ELSE Some((CHOOSE w \in {device_writes[i] : i \in 1..Len(device_writes)} :
                                     w.path = edge.source).value))
    /\ TickerAt("edges")
    /\ UNCHANGED <<regVars, rule_engine, tick_log>>
    /\ PhysFrame

\* an edge whose source is a device signal: signal_source_->read_signal begins
PhysEdgeCall ==
    /\ build = "legacy"
    /\ ticker_pc = "edges"
    /\ physics.edge <= Len(signal_graph)
    /\ NeedsSignalSource(signal_graph[physics.edge].source, device_writes)
    /\ TickerAt("edge_read")
    /\ UNCHANGED <<regVars, physVars, device_writes, tick_log>>
    /\ PhysFrame

\* signal_source_->read_signal returns and the edge is routed
PhysEdgeReturn ==
    /\ build = "legacy"
    /\ ticker_pc = "edge_read"
    /\ LET edge == signal_graph[physics.edge]
           rd == registry_read_signal(edge.source, dev,
                                      ActiveFaults(fault_state.tables, steady_clock),
                                      physics_driven_signals,
                                      signal_cache, device_reader)
       IN  /\ Routed(edge, rd.value)
           /\ dev' = rd.dev
    /\ TickerAt("edges")
    /\ DeviceOnly
    /\ UNCHANGED <<rule_engine, tick_log>>
    /\ PhysFrame

\* the model update; the lock_guard's scope ends
PhysModels ==
    /\ build = "legacy"
    /\ ticker_pc = "edges"
    /\ physics.edge > Len(signal_graph)
    /\ LET t == ThermalMassUpdate(physics.temperature_, physics.model_inputs) IN
       physics' = [physics EXCEPT !.temperature_ = t, !.model_outputs_ = t,
                                  !.physics_mutex_ = physics_mutex_at("commit")]
    /\ tick_log' = [NoTickLog EXCEPT !.outcome = "ok", !.sensors = device_writes]
    /\ TickerAt("commit")
    /\ UNCHANGED <<regVars, rule_engine, device_writes>>
    /\ PhysFrame

\* if (rule_evaluation_callback_): evaluate_rules begins
PhysRulesEnter ==
    /\ build = "legacy"
    /\ ticker_pc = "rules"
    /\ IF rule_engine.rules # <<>>
       THEN /\ rule_engine' = [rule_engine EXCEPT !.next = 1, !.evaluated = <<>>]
            /\ TickerAt("rule")
       ELSE /\ UNCHANGED rule_engine
            /\ TickerAt("elapsed")
    /\ UNCHANGED <<regVars, physics, tick_log, device_writes>>
    /\ PhysFrame

\* one iteration of the loop of evaluate_rules
PhysRule ==
    /\ build = "legacy"
    /\ ticker_pc = "rule"
    /\ rule_engine.next <= Len(rule_engine.rules)
    /\ LET rule == rule_engine.rules[rule_engine.next]
           r == evaluate_rule(rule, dev, ActiveFaults(fault_state.tables, steady_clock),
                              physics_driven_signals, signal_cache, device_reader,
                              physics.last_update, steady_clock)
       IN  /\ dev' = r.dev
           /\ physics' = [physics EXCEPT !.last_update = r.last_update]
           /\ rule_engine' =
                 [rule_engine EXCEPT
                     !.next = rule_after(@, r.outcome, Len(rule_engine.rules)),
                     !.evaluated = Append(@, [rule |-> rule.id, outcome |-> r.outcome])]
    /\ TickerAt("rule")
    /\ DeviceOnly
    /\ UNCHANGED <<tick_log, device_writes>>
    /\ PhysFrame

\* evaluate_rules returns
PhysRulesDone ==
    /\ build = "legacy"
    /\ ticker_pc = "rule"
    /\ rule_engine.next > Len(rule_engine.rules)
    /\ TickerAt("elapsed")
    /\ UNCHANGED <<regVars, physVars, tick_log, device_writes>>
    /\ PhysFrame

\* ---- the request thread

Answer(kind, device_id, code, asked, values) ==
    [kind |-> kind, device_id |-> device_id, code |-> code, at |-> steady_clock,
     capabilities |-> "", asked |-> asked, values |-> values]

RequestFrame ==
    /\ UNCHANGED <<runVars, ioVars, rpcVars, tickVars, fault_state, rule_engine,
                   accessVars, transformVars>>
    /\ DeviceOnly

\* handle_call: set_relay(relay_index=1, state) on the tempctl
PhysRequestCall(state) ==
    /\ main_pc = "loop"
    /\ LET r == legacy_call_function(
                    "tc0", kFnSetRelay,
                    [NoArgs EXCEPT !.relay_index = Some(1), !.state = state], dev,
                    ActiveFaults(fault_state.tables, steady_clock),
                    physics.last_update, steady_clock)
       IN  /\ dev' = r.dev
           /\ physics' = [physics EXCEPT !.last_update = r.last_update]
           /\ reply' = Answer("call", "tc0", r.code, {kFnSetRelay}, <<>>)
    /\ RequestFrame

\* handle_read_signals with one signal id
PhysRequestRead(p) ==
    /\ main_pc = "loop"
    /\ LET rd == device_reader_value(p, dev,
                                     ActiveFaults(fault_state.tables, steady_clock),
                                     physics_driven_signals, signal_cache) IN
       /\ dev' = rd.dev
       /\ reply' = Answer("read_signals", p.d, IF rd.value.has THEN "OK" ELSE "NOT_FOUND",
                          {p.s}, rd.value)
    /\ UNCHANGED physics
    /\ RequestFrame

\* the clock moves while the ticker sleeps
PhysTime ==
    /\ ticker_pc = "sleep"
    /\ Advance

\* the ticker started on a physics configuration with rules; the request
\* loop running
InitPhysics ==
    /\ build = "legacy"
    /\ g_sim_mode = "sim"
    /\ main_pc = "loop"
    /\ exit_code = 0
    /\ g_simulation_engine = TRUE
    /\ g_ticker_running = TRUE
    /\ g_ticker_thread = "joinable"
    /\ live_threads = 1
    /\ ticker_pc = "spawned"
    /\ thread_start = 0 /\ next_tick = 0 /\ now = 0 /\ tick_start = 0 /\ wake_at = 0
    /\ steady_clock = 0
    /\ wait_ready_handled = TRUE
    /\ stop_called = FALSE
    /\ ticked = FALSE
    /\ start_skipped = FALSE
    /\ physics_driven_signals = {}
    /\ signal_cache = [p \in AllPaths \cup ModelPaths |-> None]
    /\ device_reader = "lambda"
    /\ registry_mutex = NoThread
    /\ stack = [t \in Threads |-> <<>>]
    /\ ret = [t \in Threads |-> None]
    /\ clears = 0
    /\ dev \in {InitDev, [InitDev EXCEPT !.mode = "closed"]}
    /\ lastReq = NoReq
    /\ tpath = NoPath
    /\ IoQuiet
    /\ RpcQuiet
    /\ TickQuiet
    /\ reply = NoReply
    /\ AccessQuiet
    /\ TransformQuiet
    /\ physics = [NoPhysics EXCEPT !.model_outputs_ = output_storage(ModelInitialTemp)]
    /\ \E run \in PhysicsRuns :
          /\ rule_engine = [NoRules EXCEPT !.rules = run.rules]
          /\ fault_state = [tables |-> run.tables, injected |-> NoInjections]

NextPhysics ==
    \/ LocalTickerCheck
    \/ PhysLock
    \/ PhysEdge
    \/ PhysEdgeCall
    \/ PhysEdgeReturn
    \/ PhysModels
    \/ LocalWrite
    \/ PhysRulesEnter
    \/ PhysRule
    \/ PhysRulesDone
    \/ LocalElapsed
    \/ LocalWake
    \/ PhysTime
    \/ \E state \in {"on", "off"} : PhysRequestCall(state)
    \/ \E p \in {Path("rl0", "relay_ch1_state"), Path("tc0", "relay1_state")} :
          PhysRequestRead(p)

SpecPhysics == InitPhysics /\ [][NextPhysics]_vars

-----------------------------------------------------------------------------
(* Device-instance state under two threads: the functions of             *)
(* tempctl_device.cpp load and store the fields of g_device_states[id]   *)
(* through get_state, which takes no lock; the ticker thread and the      *)
(* request thread each enter and leave them                               *)

\* the function ids and arguments a call on tc0 is made with
CallArgs == {"on", "off", "open", "closed"}

ArgsOf(arg) ==
    IF arg \in {"on", "off"}
    THEN [id |-> kFnSetRelay, args |-> [NoArgs EXCEPT !.relay_index = Some(1), !.state = arg]]
    ELSE [id |-> kFnSetMode, args |-> [NoArgs EXCEPT !.mode = arg]]

\* what a device function makes of the State it works on
device_function(op, arg, s, driven, cache) ==
    CASE op = "update_control" -> update_control(s, driven, cache)
      [] op = "read_signals" -> closed_loop(s, driven, cache)
      [] op = "update_physics" -> tempctl_update_physics(s)
      [] op = "call_function" ->
            TempctlCallFunction(s, ArgsOf(arg).id, ArgsOf(arg).args).dev

\* the stores of a function that loaded `seen`: the fields it changed
stores(cur, seen, computed) ==
    [f \in DOMAIN cur |-> IF computed[f] # seen[f] THEN computed[f] ELSE cur[f]]

\* State &s = get_state(device_id): a thread is inside a device function
Enter(thread, op, arg) ==
    /\ device_access[thread].op = "none"
    /\ device_access' = [device_access EXCEPT
                            ![thread] = [op |-> op, seen |-> Some(dev), arg |-> arg]]

\* the function returns: its loads were made at entry or just now, its
\* stores are made
Leave(thread) ==
    /\ device_access[thread].op # "none"
    /\ \E loaded \in {device_access[thread].seen.v, dev} :
          dev' = stores(dev, loaded,
                        device_function(device_access[thread].op,
                                        device_access[thread].arg, loaded,
                                        physics_driven_signals, signal_cache))
    /\ device_access' = [device_access EXCEPT ![thread] = Outside]

AccessFrame ==
    /\ UNCHANGED <<ioVars, rpcVars, tickVars, faultVars, rule_engine, transformVars>>
    /\ DeviceOnly

\* the ticker thread's device functions in the order of its loop body:
\* update_control, the actuator read through the device reader,
\* update_physics in LocalEngine::tick, a command's call_function
TickerProgram ==
    [tick |-> "update_control", collect |-> "read_signals",
     engine |-> "update_physics", execute |-> "call_function"]

StageAfter ==
    [tick |-> "collect", collect |-> "engine", engine |-> "execute", execute |-> "tick"]

\* LocalEngine::tick: dt = now - last_update_
TimeElapsed == steady_clock - physics.last_update > 0

TickerEnters ==
    /\ build = "core"
    /\ ticker_pc \in DOMAIN TickerProgram
    /\ ticker_pc = "engine" => TimeElapsed
    /\ \E arg \in {"on"} : Enter("ticker", TickerProgram[ticker_pc], arg)
    /\ physics' = IF ticker_pc = "engine"
                  THEN [physics EXCEPT !.last_update = steady_clock]
                  ELSE physics
    /\ UNCHANGED dev
    /\ UNCHANGED runVars
    /\ AccessFrame

TickerLeaves ==
    /\ build = "core"
    /\ ticker_pc \in DOMAIN TickerProgram
    /\ Leave("ticker")
    /\ TickerAt(StageAfter[ticker_pc])
    /\ UNCHANGED physics
    /\ AccessFrame

\* LocalEngine::tick with no time elapsed, or a TickResult without commands
TickerPasses ==
    /\ build = "core"
    /\ \/ ticker_pc = "engine" /\ ~TimeElapsed
       \/ ticker_pc = "execute"
    /\ device_access.ticker.op = "none"
    /\ TickerAt(StageAfter[ticker_pc])
    /\ UNCHANGED <<dev, device_access, physics>>
    /\ AccessFrame

\* the clock moves between two ticks
AccessTime ==
    /\ ticker_pc = "tick"
    /\ device_access.ticker.op = "none"
    /\ Advance

\* handle_call and handle_read_signals on the request thread
RequestEnters(op, arg) ==
    /\ main_pc = "loop"
    /\ Enter("request", op, arg)
    /\ UNCHANGED <<dev, physics>>
    /\ UNCHANGED runVars
    /\ AccessFrame

RequestLeaves ==
    /\ main_pc = "loop"
    /\ Leave("request")
    /\ UNCHANGED <<runVars, physics>>
    /\ AccessFrame

InitAccess ==
    /\ build = "core"
    /\ g_sim_mode = "sim"
    /\ main_pc = "loop"
    /\ exit_code = 0
    /\ g_simulation_engine = TRUE
    /\ g_ticker_running = TRUE
    /\ g_ticker_thread = "joinable"
    /\ live_threads = 1
    /\ ticker_pc = "tick"
    /\ thread_start = 0 /\ next_tick = 0 /\ now = 0 /\ tick_start = 0 /\ wake_at = 0
    /\ steady_clock = 0
    /\ wait_ready_handled = TRUE
    /\ stop_called = FALSE
    /\ ticked = FALSE
    /\ start_skipped = FALSE
    /\ physics_driven_signals = {}
    /\ signal_cache = [p \in AllPaths |-> None]
    /\ device_reader = "lambda"
    /\ registry_mutex = NoThread
    /\ stack = [t \in Threads |-> <<>>]
    /\ ret = [t \in Threads |-> None]
    /\ clears = 0
    /\ dev \in {InitDev, [InitDev EXCEPT !.mode = "closed"]}
    /\ lastReq = NoReq
    /\ tpath = NoPath
    /\ IoQuiet
    /\ RpcQuiet
    /\ TickQuiet
    /\ RestQuiet

NextAccess ==
    \/ TickerEnters
    \/ TickerLeaves
    \/ TickerPasses
    \/ AccessTime
    \/ \E arg \in CallArgs : RequestEnters("call_function", arg)
    \/ RequestEnters("read_signals", "")
    \/ RequestLeaves

SpecAccess == InitAccess /\ [][NextAccess]_vars

-----------------------------------------------------------------------------
(* The engine ticker on a configuration whose engine also drives an      *)
(* actuator path of the tempctl                                           *)

\* the physics-driven sets at thread start: the engine's output paths, with
\* or without tc0/relay1_state among them
DrivenSets == {OutputPathSet, OutputPathSet \cup {Path("tc0", "relay1_state")}}

InitCollect ==
    /\ build \in Builds
    /\ g_sim_mode = "sim"
    /\ main_pc = "loop"
    /\ exit_code = 0
    /\ g_simulation_engine = TRUE
    /\ g_ticker_running = TRUE
    /\ g_ticker_thread = "joinable"
    /\ live_threads = 1
    /\ ticker_pc = "spawned"
    /\ thread_start = 0 /\ next_tick = 0 /\ now = 0 /\ tick_start = 0 /\ wake_at = 0
    /\ steady_clock = 0
    /\ wait_ready_handled = TRUE
    /\ stop_called = FALSE
    /\ ticked = FALSE
    /\ start_skipped = FALSE
    /\ physics_driven_signals \in DrivenSets
    /\ build = "legacy" => physics_driven_signals = OutputPathSet
    /\ signal_cache = [p \in AllPaths |-> None]
    /\ device_reader = "lambda"
    /\ registry_mutex = NoThread
    /\ stack = [t \in Threads |-> <<>>]
    /\ ret = [t \in Threads |-> None]
    /\ clears = 0
    /\ dev \in {InitDev, [InitDev EXCEPT !.mode = "closed"]}
    /\ lastReq = NoReq
    /\ tpath = NoPath
    /\ IoQuiet
    /\ TickQuiet
    /\ RestQuiet
    /\ client = RegisteredClient
    /\ rpc = NoCall
    /\ calls = 0

SpecCollect == InitCollect /\ [][NextTick]_vars

-----------------------------------------------------------------------------
(* The transform primitives of SimPhysics::apply_transform and the        *)
(* tempctl controller, applied to sampled inputs                          *)

\* ticks a run of the delay edges lasts
MaxTicks == 4

Min(a, b) == IF a < b THEN a ELSE b
Max(a, b) == IF a > b THEN a ELSE b

\* ---- linear

LinearState(scale, offset, clamp_min, clamp_max) ==
    [scale |-> scale, offset |-> offset, clamp_min |-> clamp_min,
     clamp_max |-> clamp_max]

\* the constructor keeps each of clamp_min and clamp_max if it is configured
LinearConfigs ==
    {LinearState(2, 1, lo, hi) : lo \in {None, Some(0)}, hi \in {None, Some(10)}}

LinearInputs == {0 - 3, 0, 4, 20}

\* variant: each configured bound is applied
linear_each_bound(state, input_value) ==
    LET value == input_value * state.scale + state.offset
        raised == IF state.clamp_min.has THEN Max(state.clamp_min.v, value) ELSE value
    IN  IF state.clamp_max.has THEN Min(state.clamp_max.v, raised) ELSE raised

\* apply_transform, Linear: the clamp is applied if both bounds are set
linear_transform(state, input_value) ==
    LET value == input_value * state.scale + state.offset IN
    IF state.clamp_min.has /\ state.clamp_max.has
    THEN Max(state.clamp_min.v, Min(state.clamp_max.v, value))
    ELSE value

\* ---- delay

DelayState(delay_sec) == [delay_sec |-> delay_sec, buffer |-> <<>>]

\* the delay edges of the graphs run: one edge, or two edges
DelayGraphs ==
    { <<DelayState(1 * dt)>>, <<DelayState(2 * dt)>>,
      <<DelayState(1 * dt), DelayState(1 * dt)>> }

\* while (!buffer.empty() && buffer.front().first < target_time - dt) erase
RECURSIVE remove_old(_, _)
remove_old(buffer, target_time) ==
    IF buffer # <<>> /\ Head(buffer).time < target_time - dt
    THEN remove_old(Tail(buffer), target_time)
    ELSE buffer

\* for (time, value) in buffer: if (time >= target_time) return value
RECURSIVE first_since(_, _)
first_since(buffer, target_time) ==
    IF Len(buffer) = 1 \/ Head(buffer).time >= target_time THEN Head(buffer).value
    ELSE first_since(Tail(buffer), target_time)

\* variant: the clock is the tick time of the edge's own samples
own_clock(sim_time, state) == Len(state.buffer) * dt + dt

\* static double sim_time; sim_time += dt: one clock for every delay edge
shared_clock(sim_time, state) == sim_time + dt

\* apply_transform, Delay, on the state of one edge
delay_transform(state, sim_time, input_value) ==
    LET time == shared_clock(sim_time, state)
        pushed == Append(state.buffer, [time |-> time, value |-> input_value])
        target_time == time - state.delay_sec
        kept == remove_old(pushed, target_time)
    IN  [state |-> [state EXCEPT !.buffer = kept],
         sim_time |-> time,
         output |-> IF kept = <<>> THEN input_value ELSE first_since(kept, target_time)]

\* the input of edge e in tick k: distinct for every edge and tick
SampleAt(e, k, c) == 100 * e + 10 * k + c

\* the delay edges of one tick in graph order, from edge e on
RECURSIVE delay_edges(_, _, _, _)
delay_edges(tr, sm, e, c) ==
    IF e > Len(tr.delay_states_) THEN [transforms |-> tr, samples |-> sm]
    ELSE LET x == SampleAt(e, sm.tick, c)
             r == delay_transform(tr.delay_states_[e], tr.sim_time, x)
         IN  delay_edges([tr EXCEPT !.delay_states_[e] = r.state, !.sim_time = r.sim_time],
                         [sm EXCEPT !.inputs[e] = Append(@, x),
                                    !.outputs[e] = Append(@, r.output)],
                         e + 1, c)

TransformFrame ==
    /\ UNCHANGED <<runVars, ioVars, rpcVars, tickVars, faultVars, physVars, accessVars>>
    /\ DeviceOnly

\* one tick of the graph: every delay edge is given its sample
DelayTick(c) ==
    /\ samples.tick < MaxTicks
    /\ LET r == delay_edges(transforms, [samples EXCEPT !.tick = @ + 1], 1, c) IN
       /\ transforms' = r.transforms
       /\ samples' = r.samples
    /\ UNCHANGED dev
    /\ TransformFrame

\* the linear edge is given a sample
LinearSample(x) ==
    /\ samples' = [samples EXCEPT
                      !.linear = [has |-> TRUE, v |-> linear_transform(transforms.linear_states_, x),
                                  type |-> "double", x |-> x]]
    /\ UNCHANGED <<dev, transforms>>
    /\ TransformFrame

\* temperatures the controller is evaluated at
ControllerTemps == {45, 49, 50, 51, 57, 58, 60, 62, 63, 75}

\* one evaluation of the controller at the top of tempctl::read_signals
ControllerEvaluation(temp) ==
    /\ dev.mode = "closed"
    /\ dev' = BangBang(dev, temp)
    /\ samples' = [samples EXCEPT !.temp = Some(temp)]
    /\ UNCHANGED transforms
    /\ TransformFrame

InitTransforms ==
    /\ build = "legacy"
    /\ g_sim_mode = "sim"
    /\ main_pc = "loop"
    /\ exit_code = 0
    /\ g_simulation_engine = TRUE
    /\ g_ticker_running = TRUE
    /\ g_ticker_thread = "joinable"
    /\ live_threads = 1
    /\ ticker_pc = "tick"
    /\ thread_start = 0 /\ next_tick = 0 /\ now = 0 /\ tick_start = 0 /\ wake_at = 0
    /\ steady_clock = 0
    /\ wait_ready_handled = TRUE
    /\ stop_called = FALSE
    /\ ticked = FALSE
    /\ start_skipped = FALSE
    /\ physics_driven_signals = {}
    /\ signal_cache = [p \in AllPaths |-> None]
    /\ device_reader = "lambda"
    /\ registry_mutex = NoThread
    /\ stack = [t \in Threads |-> <<>>]
    /\ ret = [t \in Threads |-> None]
    /\ clears = 0
    /\ \E r1 \in BOOLEAN, r2 \in BOOLEAN :
          dev = [InitDev EXCEPT !.mode = "closed", !.relay1 = r1, !.relay2 = r2]
    /\ lastReq = NoReq
    /\ tpath = NoPath
    /\ IoQuiet
    /\ RpcQuiet
    /\ TickQuiet
    /\ FaultQuiet
    /\ PhysQuiet
    /\ AccessQuiet
    /\ \E linear \in LinearConfigs, delays \in DelayGraphs :
          transforms = [linear_states_ |-> linear, delay_states_ |-> delays,
                        sim_time |-> 0]
    /\ samples = [NoSamples EXCEPT
                     !.inputs = [e \in 1..Len(transforms.delay_states_) |-> <<>>],
                     !.outputs = [e \in 1..Len(transforms.delay_states_) |-> <<>>]]

NextTransforms ==
    \/ \E c \in {0, 1} : DelayTick(c)
    \/ \E x \in LinearInputs : LinearSample(x)
    \/ \E temp \in ControllerTemps : ControllerEvaluation(temp)

SpecTransforms == InitTransforms /\ [][NextTransforms]_vars

-----------------------------------------------------------------------------
(* Calls to the control device, whose own id can be given to               *)
(* inject_device_unavailable like any other                                *)

\* the device ids inject_device_unavailable is called with
ControlTargets == {"tc0", kChaosDeviceId}

ControlFunctions == {"inject_device_unavailable", "clear_faults"}

\* chaos_control::call_function: the status and the tables it leaves
chaos_call_function(function_name, device_id, duration_ms, fs, clk) ==
    IF function_name = "inject_device_unavailable"
    THEN [code |-> "OK",
          tables |-> inject_device_unavailable(fs, device_id, duration_ms, clk)]
    ELSE IF function_name = "clear_faults"
    THEN [code |-> "OK", tables |-> clear_all_faults(fs)]
    ELSE [code |-> "NOT_FOUND", tables |-> fs]

\* variant: the control device is exempt from device faults
control_call_exempt(function_name, device_id, duration_ms, fs, clk) ==
    chaos_call_function(function_name, device_id, duration_ms, fs, clk)

\* sim_devices::call_function with device_id = chaos_control: the fault check
\* comes before the dispatch to the control device
control_call(function_name, device_id, duration_ms, fs, clk) ==
    IF is_device_unavailable(fs, kChaosDeviceId, clk)
    THEN [code |-> "INVALID_ARGUMENT", tables |-> fs]
    ELSE chaos_call_function(function_name, device_id, duration_ms,
                             device_faults_checked(fs, kChaosDeviceId, clk), clk)

\* handle_call for the control device
ControlCall(function_name, device_id, duration_ms) ==
    /\ LET r == control_call(function_name, device_id, duration_ms,
                             fault_state.tables, steady_clock)
           inj == fault_state.injected
       IN  /\ fault_state' =
                 [tables |-> r.tables,
                  injected |->
                     IF r.code # "OK" THEN inj
                     ELSE IF function_name = "clear_faults" THEN NoInjections
                     ELSE [inj EXCEPT !.unavailable =
                              MapPut(@, device_id, Some(steady_clock + duration_ms))]]
           /\ reply' = Reply("call", kChaosDeviceId, r.code, "", {function_name}, <<>>)
    /\ UNCHANGED <<dev, physics_driven_signals, signal_cache>>
    /\ FaultFrame

NextControl ==
    \/ \E d \in ControlTargets, t \in FaultDurations :
          ControlCall("inject_device_unavailable", d, t)
    \/ ControlCall("clear_faults", "", 0)
    \/ \E state \in {"on", "off"} : CallSetRelay(state)
    \/ FaultClock

SpecControl == InitFaults /\ [][NextControl]_vars

-----------------------------------------------------------------------------
(* stop_physics against the ticker iteration step by step                  *)

\* main leaves the request loop while the ticker is anywhere in its iteration
NextStop ==
    \/ NextTick
    \/ ReadEOF
    \/ JoinTicker

SpecStop == InitTick /\ [][NextStop]_vars

-----------------------------------------------------------------------------
(* The registry under arbitrary callers *)

InitRegistry ==
    /\ physics_driven_signals = {}
    /\ signal_cache = [p \in AllPaths |-> None]
    /\ device_reader = "null"
    /\ registry_mutex = NoThread
    /\ stack = [t \in Threads |-> <<>>]
    /\ ret = [t \in Threads |-> None]
    /\ clears = 0
    /\ dev = InitDev
    /\ lastReq = NoReq
    /\ tpath = NoPath
    /\ RunQuiet
    /\ IoQuiet
    /\ RpcQuiet
    /\ TickQuiet
    /\ RestQuiet

ThreadStep(t) ==
    \/ Lock(t)
    \/ WriteSignalBody(t)
    \/ MarkPhysicsDrivenBody(t)
    \/ ClearPhysicsOverridesBody(t)
    \/ SetDeviceReaderBody(t)
    \/ IsPhysicsDrivenBody(t)
    \/ ReadSignalBody(t)
    \/ ReadSignalInvoke(t)
    \/ ReadSignalReturn(t)
    \/ DeviceReaderStart(t)
    \/ DeviceReaderReturn(t)
    \/ ReadSignalsStart(t)
    \/ BangBangAfterIpd(t)
    \/ BangBangAfterRead(t)
    \/ ReadSignalsSig(t)
    \/ SigAfterIpd(t)
    \/ SigAfterRead(t)

NextRegistry ==
    \/ \E p \in RegPaths, v \in PhysValues : CallWriteSignal("ticker", p, v)
    \/ \E p \in RegPaths : CallMarkPhysicsDriven("request", p)
    \/ CallClearPhysicsOverrides("request")
    \/ \E r \in {"null", "lambda"} : CallSetDeviceReader("request", r)
    \/ \E t \in Threads, p \in RegPaths : CallReadSignal(t, p)
    \/ \E m \in {"open", "closed"} : CallSetMode(m)
    \/ \E t \in Threads : ThreadStep(t)

SpecRegistry == InitRegistry /\ [][NextRegistry]_vars

-----------------------------------------------------------------------------
(* Physics writes against read_signals requests, one signal path per run *)

InitRead ==
    /\ tpath \in AllPaths
    /\ physics_driven_signals \in {{}, {tpath}}
    /\ signal_cache = [p \in AllPaths |-> None]
    /\ device_reader = "lambda"
    /\ registry_mutex = NoThread
    /\ stack = [t \in Threads |-> <<>>]
    /\ ret = [t \in Threads |-> None]
    /\ clears = 0
    /\ dev = InitDev
    /\ lastReq = NoReq
    /\ RunQuiet
    /\ IoQuiet
    /\ RpcQuiet
    /\ TickQuiet
    /\ RestQuiet

ReadThreadStep(t) ==
    \/ Lock(t)
    \/ WriteSignalBody(t)
    \/ IsPhysicsDrivenBody(t)
    \/ ReadSignalBody(t)
    \/ ReadSignalInvoke(t)
    \/ ReadSignalReturn(t)
    \/ DeviceReaderStart(t)
    \/ DeviceReaderReturn(t)
    \/ ReadSignalsStart(t)
    \/ BangBangAfterIpd(t)
    \/ BangBangAfterRead(t)
    \/ ReadSignalsSig(t)
    \/ SigAfterIpd(t)
    \/ SigAfterRead(t)
    \/ CollectAfterIpd(t)
    \/ CollectAfterRead(t)

NextRead ==
    \/ \E v \in PhysValues : CallWriteSignal("ticker", tpath, v)
    \/ MaybeCollectSignal(tpath)
    \/ ReadSignalsRequest(tpath)
    \/ \E m \in {"open", "closed"} : CallSetMode(m)
    \/ \E t \in Threads : ReadThreadStep(t)

SpecRead == InitRead /\ [][NextRead]_vars

-----------------------------------------------------------------------------
(* Claims on the signal registry *)

\* C1: read_signal(p), judged against the registry state while it holds the
\* lock: a physics-driven p gives the cached value of p (no value when p was
\* only marked) and the device reader is not invoked; any other p gives
\* exactly what the device reader returns for p; with no reader, no value.
ReadSignalStep(t) ==
    /\ (At(t, "read_signal", "locked") /\ stack'[t] # stack[t]) =>
          IF Top(t).path \in physics_driven_signals
          THEN /\ stack'[t] = Popped(t)
               /\ ret'[t] = signal_cache[Top(t).path]
          ELSE /\ Len(stack'[t]) = Len(stack[t])
               /\ stack'[t][Len(stack[t])].pc = "unlocked"
               /\ stack'[t][Len(stack[t])].rdr = device_reader
    /\ (At(t, "read_signal", "unlocked") /\ stack'[t] # stack[t]) =>
          IF Top(t).rdr = "null"
          THEN stack'[t] = Popped(t) /\ ret'[t] = None
          ELSE /\ Len(stack'[t]) = Len(stack[t]) + 1
               /\ stack'[t][Len(stack'[t])].op = "device_reader"
               /\ stack'[t][Len(stack'[t])].path = Top(t).path
    /\ (At(t, "read_signal", "wait_reader") /\ stack'[t] # stack[t]) =>
          stack'[t] = Popped(t) /\ ret'[t] = ret[t]

ReadSignalContract == [][\A t \in Threads : ReadSignalStep(t)]_vars

\* a read delegated to the reader is about to return the reader's value while
\* the other thread has just been answered from the cache
ReadSignalContractWitness ==
    /\ At("ticker", "read_signal", "wait_reader")
    /\ ret["ticker"].has
    /\ Idle("request")
    /\ ret["request"].has
    /\ ret["request"].v \in PhysValues

\* C2: every path with a cached value is physics-driven, whatever the calls
\* and their interleaving; clear_physics_overrides empties both together.
CacheWithinPhysicsDriven ==
    \A p \in AllPaths : signal_cache[p].has => p \in physics_driven_signals

ClearEmptiesBoth ==
    \A t \in Threads :
        (At(t, "clear_physics_overrides", "locked") /\ stack'[t] # stack[t]) =>
            /\ physics_driven_signals' = {}
            /\ \A p \in AllPaths : ~signal_cache'[p].has

CacheInvariant == []CacheWithinPhysicsDriven /\ [][ClearEmptiesBoth]_vars

CacheInvariantWitness ==
    /\ clears = MaxClears
    /\ Idle("request")
    /\ \E p \in RegPaths : signal_cache[p].has
    /\ \E p \in RegPaths : p \in physics_driven_signals /\ ~signal_cache[p].has

\* C3: the registry mutex is held only inside a lock_guard block, never while
\* the device reader runs, and no thread is ever stuck: a thread that is not
\* idle can step, or waits for the mutex held by the other thread, which can.
HolderInsideBlock ==
    \A t \in Threads :
        registry_mutex = t => (~Idle(t) /\ Top(t).op \in RegistryOps /\ Top(t).pc = "locked")

CanStep(t) == ENABLED ThreadStep(t)

NoRegistryDeadlock ==
    /\ HolderInsideBlock
    /\ \A t \in Threads :
          ~Idle(t) =>
             \/ CanStep(t)
             \/ /\ Top(t).pc = "lock"
                /\ registry_mutex \in Threads \ {t}
                /\ CanStep(registry_mutex)

\* the reader called by the request thread re-enters the registry while the
\* ticker is inside write_signal
NoRegistryDeadlockWitness ==
    /\ At("ticker", "write_signal", "locked")
    /\ Len(stack["request"]) >= 4
    /\ stack["request"][1].op = "read_signal"
    /\ stack["request"][1].pc = "wait_reader"
    /\ Top("request").op \in {"is_physics_driven", "read_signal"}
    /\ Top("request").pc = "lock"

-----------------------------------------------------------------------------
(* Claims on physics writes seen through read_signals *)

\* a request that started after the physics write of lastReq.cv to its path,
\* with no other write to the path before its answer
AnsweredAfterWrite == lastReq.done /\ lastReq.cv.has /\ ~lastReq.dirty

\* C4: once the ticker has written v to d/s, a later read_signals request for
\* s of d returns v until the next physics write to d/s, for every device type
\* and every signal.
PhysicsWriteSeenByReads ==
    AnsweredAfterWrite => (lastReq.result.has /\ lastReq.result.v = lastReq.cv.v)

\* the same, for the signals whose read_signals branch asks the registry
PhysicsWriteSeenByRoutedReads ==
    (AnsweredAfterWrite /\ UsesRegistry(lastReq.path)) =>
        (lastReq.result.has /\ lastReq.result.v = lastReq.cv.v)

PhysicsWriteSeenWitness ==
    AnsweredAfterWrite /\ UsesRegistry(lastReq.path) /\ dev.mode = "closed"

-----------------------------------------------------------------------------
(* Claims on the ticker lifecycle and schedule *)

\* C5: at most one ticker thread exists at any time; a start_physics issued
\* while a ticker is running spawns no second thread.
AtMostOneTicker == live_threads <= 1

\* a start_physics call found the ticker running, and that ticker is alive
AtMostOneTickerWitness ==
    start_skipped /\ live_threads = 1 /\ ticker_pc \in {"tick", "catchup", "sleep"}

\* C6: when the engine ticker goes to sleep while it is not being stopped,
\* next_tick is thread_start + N * Period with N >= 1 and lies strictly after
\* the clock value read in that iteration.
EngineSleepsOnGrid ==
    (build = "core" /\ ticker_pc = "sleep" /\ g_ticker_running) =>
        /\ (next_tick - thread_start) % Period = 0
        /\ next_tick >= thread_start + Period
        /\ next_tick > now

\* the tick overran more than one period and the catch-up loop skipped ahead
EngineSleepsOnGridWitness ==
    /\ build = "core" /\ ticker_pc = "sleep" /\ g_ticker_running
    /\ now > thread_start + Period
    /\ (now - thread_start) % Period # 0
    /\ next_tick >= thread_start + 2 * Period

\* C7: the local ticker keeps its tick starts on the grid of the first tick
\* start plus N * Period: the time it sleeps to is always on that grid.
LocalSleepsOnGrid ==
    (build = "legacy" /\ ticker_pc = "sleep") =>
        (wake_at - thread_start) % Period = 0

\* C8: once stop_physics has cleared the flag, the ticker starts no further
\* tick, leaves its loop, and stop_physics returns with the thread joined.
NoTickAfterStop ==
    (ticker_pc = "check" /\ ~g_ticker_running) => ticker_pc' # "tick"

Stopping == main_pc = "join"

Joined == main_pc = "exited" /\ live_threads = 0 /\ g_ticker_thread = "null"

StopJoinsTicker == (Stopping ~> Joined) /\ [][NoTickAfterStop]_vars

\* stop_physics waits while the ticker is asleep between two ticks
StopJoinsTickerWitness ==
    Stopping /\ ticker_pc = "sleep" /\ ticked /\ steady_clock < Deadline

\* C9: whenever main has returned, by whichever way out of the request loop,
\* no ticker thread is left unjoined, and stop_physics has been called if a
\* ticker was ever started.
ExitAfterStopAndJoin ==
    main_pc = "exited" =>
        /\ live_threads = 0
        /\ (ticked \/ g_ticker_thread # "null") => stop_called

\* C10: a tick runs only in non_interacting mode, or in sim mode after a
\* wait_ready was handled; in inert mode no ticker thread is ever started.
TickOnlyWhenReady ==
    /\ (ticked \/ live_threads > 0) =>
          \/ g_sim_mode = "non_interacting"
          \/ g_sim_mode = "sim" /\ wait_ready_handled
    /\ g_sim_mode = "inert" => (ticker_pc = "none" /\ g_ticker_thread = "null")

TickOnlyWhenReadyWitness ==
    build = "core" /\ g_sim_mode = "sim" /\ wait_ready_handled /\ ticked

-----------------------------------------------------------------------------
(* Claims on the request loop and the framing *)

\* the request-level errors: unknown device, unknown function id, bad
\* argument, failed precondition, injected fault, unknown request kind
RequestError(q) ==
    LET req == q.req IN
    \/ req.kind = "none"
    \/ req.kind \in {"describe_device", "read_signals", "call"}
          /\ req.device_id # "" /\ req.device_id \notin Devices
    \/ req.kind = "call" /\ req.device_id \in Devices
          /\ req.function_id \notin {kFnSetMode, kFnSetSetpoint, kFnSetRelay}
    \/ req.kind = "call" /\ req.function_id = kFnSetMode
          /\ req.args.mode \notin {"open", "closed"}
    \/ req.kind = "call" /\ req.device_id \in Devices
          /\ req.function_id = kFnSetRelay /\ q.mode # "open"
    \/ req.kind = "call" /\ (q.injected \/ req.device_id \in faults.unavailable)

\* every parsed request has its response, unless writing it ended the process
AnsweredOnce ==
    \/ cout.n = request.n
    \/ cout.n + 1 = request.n /\ main_pc = "exited" /\ exit_code \in {4, 5}

\* the response written last is the one of the request parsed last
AnswerMatches ==
    (request.n > 0 /\ cout.n = request.n) =>
        /\ cout.request_id = request.req.request_id
        /\ RequestError(request) => cout.code # "OK"

\* C11: every request frame that parses gets exactly one response frame with
\* its request id before the next frame is read, so responses come in request
\* order; a request-level error gives a non-OK status in that response and
\* the loop goes on
OneResponsePerRequest ==
    /\ [](AnsweredOnce /\ AnswerMatches)
    /\ [][request'.n # request.n =>
             /\ cout.n = request.n
             /\ request'.n = request.n + 1
             /\ (cout'.n = request'.n => main_pc' = "loop")]_vars

OneResponsePerRequestWitness ==
    /\ request.n = 2
    /\ cout.n = 2
    /\ request.req.kind = "call"
    /\ request.mode = "closed"
    /\ RequestError(request)
    /\ cout.code = "FAILED_PRECONDITION"
    /\ main_pc = "loop"

\* write_frame then read_frame gives the payload back and leaves nothing
RoundTrip(B) ==
    LET w == write_frame(<<>>, B, kMaxFrameBytes)
        r == read_frame(w.out, kMaxFrameBytes)
    IN  w.ok /\ r.ok /\ r.out = B /\ r.err = "" /\ r.rest = <<>>

\* C12: write_frame(B) then read_frame returns exactly B for 0 < |B| <= 1 MiB;
\* a stream of such frames is read frame by frame in order and then ends with
\* a clean EOF and no error
FrameRoundTrip ==
    /\ \A B \in Payloads : (0 < size(B) /\ size(B) <= 1048576) => RoundTrip(B)
    /\ (main_pc = "loop" /\ unread # <<>>) =>
           LET r == read_frame(cin, kMaxFrameBytes) IN r.ok /\ r.out = unread[1]
    /\ (main_pc = "loop" /\ unread = <<>> /\ cin_tail = "frames") =>
           LET r == read_frame(cin, kMaxFrameBytes) IN ~r.ok /\ r.err = ""
    /\ (main_pc = "exited" /\ cin_tail = "frames" /\ frame = <<>>) =>
           unread = <<>> /\ io_err = "" /\ exit_code = 0

FrameRoundTripWitness ==
    /\ written = 2
    /\ unread = <<>>
    /\ size(frame) = 1048576
    /\ cin_tail = "frames"
    /\ main_pc = "loop"
    /\ ~cin_open
    /\ request.n = 2

\* what read_frame returns on the unread bytes
NextFrame == read_frame(cin, kMaxFrameBytes)

\* C13: read_frame returns true with the payload for a complete frame, false
\* with empty err only at a stream end before any header byte, false with a
\* non-empty err for a cut header, a cut payload, a length of 0 or a length
\* above the maximum (1 048 576 accepted, 1 048 577 rejected); main exits 0
\* on clean EOF and 2 on every non-empty err
ReadFrameClassified ==
    /\ (main_pc = "loop" /\ ~Blocked(NextFrame)) =>
          /\ NextFrame.ok <=> unread # <<>>
          /\ NextFrame.ok => NextFrame.out = unread[1]
          /\ (~NextFrame.ok /\ NextFrame.err = "") <=>
                 (unread = <<>> /\ cin_tail = "frames")
          /\ (~NextFrame.ok /\ NextFrame.err # "") <=>
                 (unread = <<>> /\ cin_tail \in {"cut_header", "cut_payload",
                                                "zero_length", "over_length"})
    /\ RoundTrip(Padded(4, 1048576))
    /\ LET r == read_frame(Bytes(encode_u32_le(1048577) \o Padded(4, 1048577)),
                           kMaxFrameBytes)
       IN  ~r.ok /\ r.err # ""
    /\ (main_pc = "exited" /\ frame = <<>>) =>
          /\ exit_code = 0 <=> io_err = ""
          /\ exit_code = 2 <=> io_err # ""
          /\ io_err = "" <=> cin_tail = "frames"

ReadFrameClassifiedWitness ==
    /\ main_pc = "exited"
    /\ exit_code = 2
    /\ io_err = ErrHeader
    /\ cin_tail = "cut_header"
    /\ request.n = 1

-----------------------------------------------------------------------------
(* Claims on the adapter's RPC calls *)

RetryableNames == {"UNAVAILABLE", "DEADLINE_EXCEEDED", "RESOURCE_EXHAUSTED", "ABORTED"}

\* the position of the first UNAUTHENTICATED among the statuses of the call,
\* 0 if there is none
FirstUnauthenticated ==
    IF \E i \in 1..Len(rpc.statuses) : rpc.statuses[i] = "UNAUTHENTICATED"
    THEN CHOOSE i \in 1..Len(rpc.statuses) :
            /\ rpc.statuses[i] = "UNAUTHENTICATED"
            /\ \A j \in 1..(i - 1) : rpc.statuses[j] # "UNAUTHENTICATED"
    ELSE 0

\* C16: when update_signals or read_signal has returned and its RPC was
\* answered UNAUTHENTICATED, on whichever attempt, then update_signals has
\* tried to re-register, and after a re-registration that succeeded the RPC
\* was issued once more
UnauthenticatedRecovery ==
    (/\ rpc.op \in {"update_signals", "read_signal"}
     /\ rpc.pc = "done"
     /\ FirstUnauthenticated > 0)
    => /\ rpc.op = "update_signals" => rpc.rereg # "none"
       /\ rpc.rereg = "ok" => Len(rpc.statuses) > FirstUnauthenticated

\* the reason the code has for one more attempt after the first status
SecondAttemptJustified ==
    \/ rpc.statuses[1] \in RetryableNames
    \/ /\ rpc.statuses[1] = "UNAUTHENTICATED"
       /\ rpc.rereg = "ok"
       /\ rpc.op \in {"update_signals", "read_signal"}

\* C17: an adapter call issues its RPC at most twice, and a second time only
\* after a retryable first status or after UNAUTHENTICATED followed by a
\* re-registration that succeeded
AtMostTwoAttempts ==
    /\ Len(rpc.statuses) <= 2
    /\ rpc.pc = "rpc" => Len(rpc.statuses) < 2
    /\ (Len(rpc.statuses) = 2 \/ (Len(rpc.statuses) = 1 /\ rpc.pc = "rpc"))
          => SecondAttemptJustified

AtMostTwoAttemptsWitness ==
    /\ rpc.op = "update_signals"
    /\ rpc.pc = "done"
    /\ rpc.statuses = <<"UNAUTHENTICATED", "OK">>
    /\ rpc.rereg = "ok"
    /\ rpc.result = "true"

\* a call of read_signal begins in this step
ReadBegins ==
    /\ rpc.pc = "done"
    /\ calls' = calls + 1
    /\ rpc'.op = "read_signal"

\* the cache is empty right after the events that invalidate it
CacheEmptyAfterEvents ==
    rpc.pc = "done" =>
       /\ (rpc.op = "update_signals" /\ rpc.result = "true")
             => client.signal_cache_ = EmptyCache
       /\ (rpc.op = "reset" /\ rpc.result = "void")
             => client.signal_cache_ = EmptyCache
       /\ (rpc.op = "load_config_content" /\ rpc.changed)
             => client.signal_cache_ = EmptyCache

\* C18: the adapter's cache is empty right after an UpdateSignals that
\* reported a tick, after a Reset and after a LoadConfig that reported a
\* change; a read_signal of a path that is not cached issues the RPC, and one
\* of a cached path returns the cached value without an RPC
CacheNeverOutlivesTick ==
    /\ []CacheEmptyAfterEvents
    /\ [][ReadBegins =>
            IF client.signal_cache_[rpc'.path].has
            THEN /\ rpc'.pc = "done" /\ rpc'.hit
                 /\ rpc'.statuses = <<>>
                 /\ rpc'.value = client.signal_cache_[rpc'.path]
                 /\ client' = client
            ELSE rpc'.pc = "rpc" /\ ~rpc'.hit]_vars

CacheNeverOutlivesTickWitness ==
    /\ rpc.op = "update_signals"
    /\ rpc.result = "true"
    /\ rpc.pc = "done"
    /\ calls = 3
    /\ client.signal_cache_ = EmptyCache
    /\ client.pending_commands_ = <<RelayOn, RelayOff>>

-----------------------------------------------------------------------------
(* Claims on the ticker's iteration *)

\* the ticker is past the writes of one tick and has not yet the result of
\* the next: schedule advance, sleep, loop test, control update, actuator
\* collection, the engine call; in the local ticker rule evaluation, sleep,
\* loop test and the start of graph evaluation
BetweenResults ==
    IF build = "core"
    THEN ticker_pc \in {"advance", "catchup", "sleep", "check", "tick", "collect",
                        "engine", "update"}
    ELSE ticker_pc \in {"rules", "elapsed", "sleep", "check", "tick"}

\* every write the last tick produced is in the registry
Committed ==
    \A i \in 1..Len(tick_log.sensors) :
       /\ tick_log.sensors[i].path \in physics_driven_signals
       /\ signal_cache[tick_log.sensors[i].path] = Some(tick_log.sensors[i].value)

\* C14: when a tick has produced registry writes (the engine's sensors, or
\* the local graph's device writes), all of them are in the registry before
\* the next tick does its control update, actuator collection or graph
\* evaluation, and none is left to be written
WritesBeforeNextTick ==
    BetweenResults =>
       /\ result.sensors = <<>>
       /\ device_writes = <<>>
       /\ tick_log.outcome = "ok" =>
             /\ tick_log.writes = Len(tick_log.sensors)
             /\ Committed

WritesBeforeNextTickWitness ==
    /\ build = "core"
    /\ ticker_pc = "collect"
    /\ tick_count = 1
    /\ tick_log.outcome = "ok"
    /\ tick_log.writes = 2
    /\ signal_cache[Path("tc0", "tc1_temp")] = Some(80)
    /\ signal_cache[Path("tc0", "tc2_temp")] = Some(70)

\* the ticker is between the command loop of one tick and the actuator
\* collection of the next
BeforeCollection ==
    build = "core" /\ ticker_pc \in {"advance", "catchup", "sleep", "check", "tick", "collect"}

\* C15: every command the engine returned for a tick has been executed
\* before the next tick collects actuators, and the collection of the next
\* tick reads the relay state the last successful command of the tick set
CommandsBeforeCollection ==
    /\ [](BeforeCollection =>
             /\ result.commands = <<>>
             /\ tick_log.execs = Len(tick_log.commands))
    /\ [][(ticker_pc = "collect" /\ ticker_pc' = "engine" /\ tick_log.relay1.has)
             => actuators'[Path("tc0", "relay1_state")] = tick_log.relay1.v]_vars

CommandsBeforeCollectionWitness ==
    /\ ticker_pc = "engine"
    /\ tick_count = 1
    /\ tick_log.commands = <<RelayOn>>
    /\ tick_log.execs = 1
    /\ tick_log.relay1 = Some(1)
    /\ actuators[Path("tc0", "relay1_state")] = 1
    /\ dev.mode = "open"

\* C19: every command an OK UpdateSignals response carried, whatever its
\* tick_occurred flag, is executed through call_function in the order
\* received: until then the provider holds it, in the TickResult being
\* processed or in the client's pending list, and none is discarded
EveryReceivedCommandExecuted ==
    build = "core" =>
       owed = (IF result.success THEN result.commands ELSE <<>>)
                 \o client.pending_commands_

\* C20: a tick whose engine call failed has written nothing and executed no
\* command, advances next_tick by one period and counts, leaves the ticker in
\* its loop so that the next loop test starts the next tick, and an exception
\* of the adapter arrives as a failed TickResult
FailedTickKeepsSchedule ==
    /\ []((build = "core" /\ tick_log.outcome = "failed") =>
             /\ tick_log.writes = 0
             /\ tick_log.execs = 0
             /\ result = FailedTick
             /\ ticker_pc \notin {"read", "reading", "write", "execute", "done"}
             /\ live_threads = 1)
    /\ [][(build = "core" /\ tick_log.outcome = "failed") =>
             /\ ticker_pc = "advance" =>
                   /\ next_tick' = next_tick + Period
                   /\ tick_count' = tick_count + 1
                   /\ ticker_pc' = "catchup"
             /\ (ticker_pc = "check" /\ ticker_pc' # "check" /\ g_ticker_running)
                   => ticker_pc' = "tick"
             /\ UNCHANGED <<physics_driven_signals, signal_cache>>]_vars

FailedTickKeepsScheduleWitness ==
    /\ build = "core"
    /\ tick_log.outcome = "failed"
    /\ tick_log.threw
    /\ tick_count = 2
    /\ ticker_pc = "tick"
    /\ next_tick = 2 * Period

-----------------------------------------------------------------------------
(* Claims on fault injection *)

\* the last request was describe_device for a registered device, handled
\* while an inject_device_unavailable fault on it was in force
DescribedUnderFault ==
    /\ reply.kind = "describe_device"
    /\ reply.device_id \in Devices \cap FaultTargets
    /\ DeviceFaultInForce(fault_state.injected, reply.device_id, reply.at)

\* C21: describe_device for a registered device under an
\* inject_device_unavailable fault answers OK with an empty capability set,
\* and NOT_FOUND is answered only for a device id that is unknown.
FaultedDeviceDescribedEmpty ==
    reply.kind = "describe_device" =>
        /\ DescribedUnderFault => reply.code = "OK" /\ reply.capabilities = "empty"
        /\ reply.code = "NOT_FOUND" => reply.device_id \notin Devices \cup {kChaosDeviceId}

\* the signals of the last read_signals answer that were under an
\* inject_signal_fault fault when the request was handled
FaultedInReply ==
    IF reply.kind = "read_signals" /\ reply.code = "OK"
    THEN {s \in DOMAIN reply.values \cap FaultSignals :
             SignalFaultInForce(fault_state.injected, reply.device_id, s, reply.at)}
    ELSE {}

\* C22: while a signal is under an inject_signal_fault fault, read_signals
\* returns it with quality FAULT and with the value the first read under
\* that fault returned, whatever the device or physics value has become.
FaultedValueFrozen ==
    \A s \in FaultedInReply :
        /\ reply.values[s].quality = "FAULT"
        /\ reply.values[s].value = fault_state.injected.first_read[s]

\* the last request addressed the registered device tc0
OnTempctl(kind) == reply.kind = kind /\ reply.device_id = "tc0"

-----------------------------------------------------------------------------
(* Claims on the local physics ticker and the rule engine *)

\* the tick's graph evaluation, model update and device writes are done
TickCommitted == ticker_pc \in {"rules", "rule", "elapsed", "sleep"}

\* C24: after the commit of each tick of the local physics ticker the
\* registry holds, for every model output path, the value the model's
\* update returned in that tick
ModelOutputsPublished ==
    (build = "legacy" /\ TickCommitted) =>
        \A p \in ModelPaths :
            /\ p \in physics_driven_signals
            /\ signal_cache[p] = Some(physics.model_outputs_)

\* the rule evaluation of a tick has returned
RulesEvaluated == build = "legacy" /\ ticker_pc \in {"elapsed", "sleep"}

\* C25: with the rule "model/temperature > 80" -> set_relay_ch1(enabled=true),
\* once the model's temperature output exceeds 80 in a tick, the rule
\* evaluation of that tick has executed the action and relay_ch1 is on, which
\* is what the next read_signals of relay_ch1_state returns
RuleFiresEndToEnd ==
    (/\ rule_engine.rules = <<ModelRule>>
     /\ RulesEvaluated
     /\ physics.model_outputs_ > RuleThreshold) =>
        /\ rule_engine.evaluated[1].outcome = "executed"
        /\ dev.relay_ch1
        /\ DeviceValues(dev, Path("rl0", "relay_ch1_state")) = {make_bool(TRUE)}

\* the rules evaluated so far are the configured rules, in declared order
InDeclaredOrder ==
    /\ Len(rule_engine.evaluated) <= Len(rule_engine.rules)
    /\ \A i \in 1..Len(rule_engine.evaluated) :
          rule_engine.evaluated[i].rule = rule_engine.rules[i].id

\* C26: in every tick each rule is evaluated in declared order; an exception
\* raised by rule i (condition outside the grammar, unknown function,
\* argument conversion error) never keeps rules i+1 onward from being
\* evaluated in the same tick and never stops the ticker
RulesLogAndContinue ==
    (build = "legacy" /\ rule_engine.rules # <<>>) =>
        /\ ticker_pc # "done" /\ live_threads = 1
        /\ ticker_pc = "rule" =>
              /\ InDeclaredOrder
              /\ rule_engine.next = Len(rule_engine.evaluated) + 1
        /\ RulesEvaluated =>
              /\ InDeclaredOrder
              /\ Len(rule_engine.evaluated) = Len(rule_engine.rules)

\* two rules threw, one after the other, and the third was executed
RulesLogAndContinueWitness ==
    /\ RulesEvaluated
    /\ rule_engine.rules = <<UnknownFunctionRule, ConversionRule, SensorRule>>
    /\ rule_engine.evaluated =
          << [rule |-> "unknown_function", outcome |-> "exception"],
             [rule |-> "conversion", outcome |-> "exception"],
             [rule |-> "sensor", outcome |-> "executed"] >>
    /\ dev.relay_ch1
    /\ ticked

\* C27: a call_function or read_signals on a device executed by the request
\* thread never overlaps a read or write of that device's state made by the
\* ticker thread
DeviceAccessExclusive ==
    ~(/\ device_access.request.op # "none"
      /\ device_access.ticker.op # "none")

\* the ticker is inside a registry call or the rule hook, or about to make one
AtRegistryWrite == ticker_pc = "commit"
AtRuleHook == ticker_pc \in {"rules", "rule"}
InRegistryRead == ticker_pc = "edge_read"

\* C28 as stated: the local physics ticker never holds the physics mutex
\* while it calls into the signal registry (read_signal or write_signal) or
\* into the rule-evaluation hook
MutexFreeAtRegistryAndRules ==
    (build = "legacy" /\ (InRegistryRead \/ AtRegistryWrite \/ AtRuleHook)) =>
        physics.physics_mutex_ = NoThread

\* C28 amended: the ticker never holds the physics mutex while it calls
\* write_signal or the rule-evaluation hook; the graph evaluation, with its
\* read_signal calls for device sources, runs under the mutex
MutexFreeAtWritesAndRules ==
    build = "legacy" =>
        /\ (AtRegistryWrite \/ AtRuleHook) => physics.physics_mutex_ = NoThread
        /\ (ticker_pc \in {"edges", "edge_read"}) => physics.physics_mutex_ = "ticker"

\* a device write about to be made with the mutex released, after a graph
\* evaluation that read a device source through the registry
MutexFreeAtWritesAndRulesWitness ==
    /\ build = "legacy"
    /\ AtRegistryWrite
    /\ device_writes # <<>>
    /\ physics.model_inputs.has
    /\ physics.physics_mutex_ = NoThread

\* C29: handling read_signals leaves all device state unchanged and handling
\* call changes only the fields the called function sets: no handler
\* integrates temperatures or runs the bang-bang controller
HandlersNeverAdvancePhysics ==
    [][(build = "legacy" /\ reply' # reply) =>
          IF reply'.kind = "read_signals" THEN dev' = dev
          ELSE dev' = [dev EXCEPT !.relay1 = dev'.relay1]]_vars

\* C30: in each tick a declared actuator path that is physics-driven is left
\* out of the actuator map passed to the engine, and every other declared
\* actuator path of a registered device is in it with the device's value
ActuatorsNeverOverridePhysics ==
    [][(build = "core" /\ ticker_pc = "collect" /\ ticker_pc' = "engine") =>
          /\ DOMAIN actuators' =
                {p \in ActuatorPaths : p \notin physics_driven_signals}
          /\ \A p \in DOMAIN actuators' :
                actuators'[p] = IF (IF p.s = "relay1_state" THEN dev'.relay1
                                   ELSE dev'.relay2) THEN 1 ELSE 0]_vars

\* relay1_state is physics-driven and left out, relay2_state is passed on
ActuatorsNeverOverridePhysicsWitness ==
    /\ build = "core"
    /\ ticker_pc = "engine"
    /\ Path("tc0", "relay1_state") \in physics_driven_signals
    /\ DOMAIN actuators = {Path("tc0", "relay2_state")}
    /\ dev.relay2
    /\ actuators[Path("tc0", "relay2_state")] = 1

-----------------------------------------------------------------------------
(* Claims on the graph evaluation *)

InGraphEvaluation == build = "legacy" /\ ticker_pc \in {"edges", "edge_read"}

\* C31: within one tick the edges are processed in declared order; an edge
\* whose source is the target of an earlier edge of the same tick reads the
\* value that edge produced, not the registry's; an edge whose source has no
\* value contributes neither a model input nor a device write
GraphInDeclaredOrder ==
    /\ [][(build = "legacy" /\ physics'.edge # physics.edge) =>
             physics'.edge = IF ticker_pc = "tick" THEN 1 ELSE physics.edge + 1]_vars
    /\ []((InGraphEvaluation /\ physics.edge > 3) =>
             /\ Len(device_writes) = 2
             /\ device_writes[1].path = Path("tc0", "tc1_temp")
             /\ device_writes[2].path = Path("tc0", "tc2_temp")
             /\ device_writes[2].value = device_writes[1].value)
    /\ [][(InGraphEvaluation /\ physics.edge = 4 /\ physics'.edge = 5) =>
             /\ physics'.model_inputs = physics.model_inputs
             /\ device_writes' = device_writes]_vars

\* the third edge has read this tick's tc1_temp while the registry still
\* holds another value from the tick before
GraphInDeclaredOrderWitness ==
    /\ InGraphEvaluation
    /\ physics.edge = 5
    /\ Len(device_writes) = 2
    /\ device_writes[2].value = device_writes[1].value
    /\ signal_cache[Path("tc0", "tc1_temp")].has
    /\ signal_cache[Path("tc0", "tc1_temp")].v # device_writes[1].value
    /\ physics.model_inputs = Some(HeaterGain)

\* C39: in the first tick an edge whose source is a model output reads 0,
\* the initial content of the output store, not the model's initial_temp;
\* from the second tick on the edges see the model's real output
FirstTickReadsZero ==
    InGraphEvaluation =>
        /\ ~ticked =>
              /\ physics.model_outputs_ = 0
              /\ physics.temperature_ = ModelInitialTemp
              /\ physics.edge > 2 => device_writes[1].value = 0
        /\ ticked =>
              /\ physics.model_outputs_ = physics.temperature_
              /\ physics.edge > 2 => device_writes[1].value = physics.temperature_

FirstTickReadsZeroWitness ==
    /\ InGraphEvaluation
    /\ ~ticked
    /\ physics.edge = 3
    /\ device_writes = <<[path |-> Path("tc0", "tc1_temp"), value |-> 0]>>
    /\ physics.temperature_ = ModelInitialTemp

\* the first rule of the run is one of the rules with three actions, and the
\* loop of evaluate_rules steps over it
FirstRuleStep ==
    /\ build = "legacy"
    /\ ticker_pc = "rule"
    /\ rule_engine.next = 1
    /\ rule_engine'.next = 2
    /\ rule_engine.rules[1].id \in {"missing_function", "two_devices"}

\* the second action of the first rule throws: the function is missing, or
\* its device is unavailable
SecondActionThrows ==
    \/ rule_engine.rules[1].id = "missing_function"
    \/ fault_state.tables = FaultedTables

\* C35: when a rule's condition is true and its action i names a function
\* the device does not expose, or the device is under an unavailable fault,
\* actions i+1 onward are not executed in that tick, the actions before i
\* have taken effect, and the later rules are still evaluated
FailedActionEndsRule ==
    /\ [][FirstRuleStep =>
             IF SecondActionThrows
             THEN /\ rule_engine'.evaluated[1].outcome = "exception"
                  /\ dev'.relay_ch1
                  /\ dev'.setpoint_c = dev.setpoint_c
             ELSE /\ rule_engine'.evaluated[1].outcome = "executed"
                  /\ ~dev'.relay_ch1
                  /\ dev'.setpoint_c = 70]_vars
    /\ []((RulesEvaluated /\ Len(rule_engine.rules) = 2
              /\ rule_engine.rules[1].id \in {"missing_function", "two_devices"}) =>
             /\ Len(rule_engine.evaluated) = 2
             /\ rule_engine.evaluated[2].rule = "sensor")

\* tc0 is unavailable: the first action switched relay_ch1 on, the second
\* threw, the third did not switch it off, and the sensor rule was evaluated
FailedActionEndsRuleWitness ==
    /\ RulesEvaluated
    /\ fault_state.tables = FaultedTables
    /\ rule_engine.evaluated =
          << [rule |-> "two_devices", outcome |-> "exception"],
             [rule |-> "sensor", outcome |-> "quiet"] >>
    /\ dev.relay_ch1
    /\ dev.setpoint_c = DefaultSetpoint
-----------------------------------------------------------------------------
(* Claims on the transforms and the controller                            *)

\* the number of ticks a delay edge is configured to hold a sample back
DelayTicks(state) == state.delay_sec \div dt

\* C32: the output of a delay edge depends on its own inputs only: once more
\* than n ticks have run, an edge with delay_sec = n*dt returns the sample it
\* was given n ticks earlier, whatever other delay edges the graph has
DelayReturnsOwnEarlierSample ==
    \A e \in 1..Len(transforms.delay_states_) :
        \A k \in 1..Len(samples.outputs[e]) :
            LET n == DelayTicks(transforms.delay_states_[e]) IN
            k > n => samples.outputs[e][k] = samples.inputs[e][k - n]

\* C34: the output of a linear edge is scale*x + offset clamped to every
\* configured bound: never below clamp_min if clamp_min is configured, never
\* above clamp_max if clamp_max is configured
LinearClampedToEveryBound ==
    samples.linear.has =>
        LET state == transforms.linear_states_ IN
        /\ samples.linear.v = linear_each_bound(state, samples.linear.x)
        /\ state.clamp_min.has => samples.linear.v >= state.clamp_min.v
        /\ state.clamp_max.has => samples.linear.v <= state.clamp_max.v

\* C33: in closed mode an evaluation of the controller at T with
\* sp-2 <= T <= sp+2 leaves both relays as they were; an error sp-T above 10
\* switches both on, an error above 2 up to 10 switches relay1 on and relay2 off,
\* an error below -2 switches both off
BangBangDeadBandHolds ==
    [][\A temp \in ControllerTemps :
          (dev.mode = "closed" /\ ControllerEvaluation(temp)) =>
             LET error == dev.setpoint_c - temp IN
             /\ (error >= 0 - 2 /\ error <= 2) =>
                   dev'.relay1 = dev.relay1 /\ dev'.relay2 = dev.relay2
             /\ error > 10 => dev'.relay1 /\ dev'.relay2
             /\ (error > 2 /\ error <= 10) => dev'.relay1 /\ ~dev'.relay2
             /\ error < 0 - 2 => ~dev'.relay1 /\ ~dev'.relay2
             /\ dev' = [dev EXCEPT !.relay1 = dev'.relay1, !.relay2 = dev'.relay2]]_vars

\* the controller was evaluated at the edge of the band with setpoint 60 and
\* the relays are in a position only the initial state has
BangBangDeadBandHoldsWitness ==
    /\ dev.mode = "closed" /\ dev.setpoint_c = 60
    /\ samples.temp = Some(62)
    /\ ~dev.relay1 /\ dev.relay2
-----------------------------------------------------------------------------
(* Claims on the remote session and the engine commands                   *)

\* the re-registration after an UNAUTHENTICATED answer has failed
SessionLost == build = "core" /\ ~client.registered_ /\ rpc.pc # "reregister"

\* C36: once the re-registration in update_signals has failed the client is
\* unregistered with an empty session id and stays so; every later
\* update_signals returns by exception without sending an RPC, no registration
\* is attempted, and every later tick reports success = false
LostSessionNeverReestablished ==
    /\ [](SessionLost => client.session_id_ = "")
    /\ [][SessionLost =>
             /\ SessionLost'
             /\ client'.session_id_ = ""
             /\ rpc'.rereg = rpc.rereg \/ rpc' = NoCall]_vars
    /\ [][(SessionLost /\ ticker_pc = "engine" /\ ticker_pc' = "update") =>
             /\ rpc'.op = "update_signals" /\ rpc'.pc = "done"
             /\ rpc'.result = "throw"
             /\ rpc'.statuses = <<>>]_vars
    /\ [][(SessionLost /\ ticker_pc = "update" /\ ticker_pc' # "update") =>
             /\ result' = FailedTick
             /\ tick_log'.outcome = "failed"
             /\ ticker_pc' = "advance"]_vars

\* a tick after the one that lost the session: its update_signals has thrown
\* without a status from the server
LostSessionNeverReestablishedWitness ==
    /\ SessionLost
    /\ tick_count >= 1
    /\ ticker_pc = "update"
    /\ rpc.op = "update_signals" /\ rpc.pc = "done" /\ rpc.statuses = <<>>
    /\ rpc.result = "throw"

\* the step in which update_signals takes an OK response
OkResponse ==
    /\ rpc.op = "update_signals" /\ rpc.pc = "rpc"
    /\ Len(rpc'.statuses) > Len(rpc.statuses)
    /\ rpc'.statuses[Len(rpc'.statuses)] = "OK"

\* the step in which RemoteEngine::tick drains the commands
DrainStep == ticker_pc = "read" /\ ticker_pc' \notin {"read", "reading"}

\* C37: no engine command is executed more than once: drain_commands hands
\* the pending list over and leaves it empty, the ticker executes each command
\* handed over once, and an OK UpdateSignals response replaces a pending list
\* that was not drained
CommandsExecutedAtMostOnce ==
    /\ [][(build = "core" /\ OkResponse) =>
             client'.pending_commands_ = rpc'.commands]_vars
    /\ [][(build = "core" /\ DrainStep) =>
             /\ result'.commands = client.pending_commands_
             /\ tick_log'.commands = client.pending_commands_
             /\ client'.pending_commands_ = <<>>]_vars
    /\ [][(build = "core" /\ client'.pending_commands_ # client.pending_commands_) =>
             OkResponse \/ DrainStep]_vars
    /\ [][(build = "core" /\ tick_log'.execs # tick_log.execs /\ tick_log'.execs # 0) =>
             /\ ticker_pc = "execute"
             /\ tick_log'.execs = tick_log.execs + 1
             /\ result.commands # <<>>
             /\ result'.commands = Tail(result.commands)]_vars
    /\ [](build = "core" =>
             tick_log.execs + Len(result.commands) = Len(tick_log.commands))

\* a response whose commands were not drained was followed by an OK response
\* with one command, which is now the whole pending list
CommandsExecutedAtMostOnceWitness ==
    /\ build = "core"
    /\ ticker_pc = "update"
    /\ rpc.pc = "done" /\ rpc.result = "true" /\ rpc.commands = <<RelayOn>>
    /\ owed = <<RelayOn, RelayOff, RelayOn>>
    /\ client.pending_commands_ = <<RelayOn>>
-----------------------------------------------------------------------------
(* Claims on the control device under its own fault                       *)

\* a step in which a call to the control device is handled
ControlStep ==
    /\ steady_clock' = steady_clock
    /\ reply'.kind = "call" /\ reply'.device_id = kChaosDeviceId

\* inject_device_unavailable was called with the control device's id and the
\* duration given has not expired
ControlFaultInForce ==
    /\ kChaosDeviceId \in DOMAIN fault_state.injected.unavailable
    /\ fault_state.injected.unavailable[kChaosDeviceId].has
    /\ steady_clock < fault_state.injected.unavailable[kChaosDeviceId].v

\* C38: after inject_device_unavailable on the control device's own id every
\* call to the control device, clear_faults included, fails with the
\* injected-fault status and leaves the fault tables as they are, until the
\* duration has expired
ControlDeviceLockedOut ==
    /\ [][(ControlFaultInForce /\ ControlStep) =>
             /\ reply'.code = "INVALID_ARGUMENT"
             /\ fault_state' = fault_state]_vars
    /\ [](ControlFaultInForce =>
             is_device_unavailable(fault_state.tables, kChaosDeviceId, steady_clock))

\* clear_faults was refused while tc0 and the control device were both faulted
ControlDeviceLockedOutWitness ==
    /\ ControlFaultInForce
    /\ reply.kind = "call" /\ reply.device_id = kChaosDeviceId
    /\ reply.asked = {"clear_faults"}
    /\ reply.code = "INVALID_ARGUMENT"
    /\ reply.at = steady_clock
    /\ is_device_unavailable(fault_state.tables, "tc0", steady_clock)
-----------------------------------------------------------------------------
(* Claims on stop_physics                                                  *)

\* stop_physics has destroyed the registry, the engine and the maps
Cleared == build = "core" /\ stop_called /\ ~g_simulation_engine

\* C40: stop_physics joins the ticker thread before it destroys the signal
\* registry, the engine and the function-name map: when they are destroyed the
\* thread function has returned, and the ticker takes no step afterwards
StopJoinsBeforeDestroy ==
    /\ [][(build = "core" /\ stop_called' /\ g_simulation_engine
              /\ ~g_simulation_engine') =>
             /\ main_pc = "join"
             /\ ~g_ticker_running
             /\ ticker_pc = "done"
             /\ live_threads = 0]_vars
    /\ [](Cleared =>
             /\ live_threads = 0
             /\ ticker_pc = "none"
             /\ g_ticker_thread = "null"
             /\ rpc.pc = "done")
    /\ [][Cleared => UNCHANGED <<ticker_pc, tickVars, rpcVars, regVars>>]_vars

\* stop_physics has returned after the ticker was stopped in a tick that had
\* written sensors and executed a command
StopJoinsBeforeDestroyWitness ==
    /\ Cleared
    /\ main_pc = "exited"
    /\ tick_log.writes > 0
    /\ tick_log.execs > 0
    /\ tick_count >= 1

====
